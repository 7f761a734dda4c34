---- MODULE RankingRules ----
(***************************************************************************)
(* The ranking rules a search runs (milli/src/search/new): the graph-based *)
(* ones of RankingGraph, exact_attribute.rs, sort.rs and geo_sort.rs, and  *)
(* the list of them that the criteria of the index and the sort parameter  *)
(* of the search give.  A rule is a record; what a rule keeps from one     *)
(* iteration to the next is in keep, what an iteration works on in iter.   *)
(***************************************************************************)
EXTENDS RankingGraph

CONSTANT GeoCacheSize  \* the parameter of geo_sort::Strategy::Dynamic

Rule(kind, field, ascending) == [kind |-> kind, field |-> field, ascending |-> ascending]
GraphRules == {"Words", "Typo", "Proximity", "Fid", "Position", "Exactness"}

(* resolve_sort_criteria: a field is sorted on once, by the first mention. *)
AddSort(rules, criterion) ==
    IF criterion.field = "_geo" THEN Append(rules, Rule("Geo", "_geo", criterion.kind = "Asc"))
    ELSE IF \E i \in 1..Len(rules) : rules[i].kind = "Sort" /\ rules[i].field = criterion.field THEN rules
    ELSE Append(rules, Rule("Sort", criterion.field, criterion.kind = "Asc"))
resolve_sort_criteria(rules, sort) == FoldLeft(AddSort, rules, sort)

Has(rules, kind) == \E i \in 1..Len(rules) : rules[i].kind = kind

(* get_ranking_rules_for_query_graph_search: words comes before the rules  *)
(* that need it, unless every word is required.                            *)
get_ranking_rules_for_query_graph_search(criteria, sort, strategy) ==
    LET rule(kind) == <<Rule(kind, "", TRUE)>>
        with_words(rules) == IF strategy = "All" \/ Has(rules, "Words") THEN rules ELSE rules \o rule("Words")
        add(acc, c) ==
            CASE c.kind = "Words" -> [acc EXCEPT !.rules = with_words(@)]
              [] c.kind \in {"Typo", "Proximity"} ->
                    [acc EXCEPT !.rules = IF Has(@, c.kind) THEN @ ELSE with_words(@) \o rule(c.kind)]
              [] c.kind = "Attribute" ->
                    [acc EXCEPT !.rules = IF Has(@, "Fid") THEN @
                                          ELSE with_words(@) \o rule("Fid") \o rule("Position")]
              [] c.kind = "Exactness" ->
                    [acc EXCEPT !.rules = IF Has(@, "Exactness") THEN @
                                          ELSE with_words(@) \o rule("ExactAttribute") \o rule("Exactness")]
              [] c.kind = "Sort" ->
                    IF acc.sorted THEN acc
                    ELSE [rules |-> resolve_sort_criteria(acc.rules, sort), sorted |-> TRUE]
              [] c.kind \in {"Asc", "Desc"} -> [acc EXCEPT !.rules = AddSort(@, c)]
    IN  FoldLeft(add, [rules |-> <<>>, sorted |-> FALSE], criteria).rules

(* get_ranking_rules_for_placeholder_search: without a query only the      *)
(* sorts remain.                                                           *)
get_ranking_rules_for_placeholder_search(criteria, sort) ==
    get_ranking_rules_for_query_graph_search(
        SelectSeq(criteria, LAMBDA c : c.kind \in {"Sort", "Asc", "Desc"}), sort, "All")

(* check_sort_criteria: sorting needs the sort rule and sortable fields.   *)
(* ctx.sortable holds every name is_faceted accepts: the sortable          *)
(* attributes and the fields nested in them.                               *)
check_sort_criteria(ctx, sort) ==
    sort # <<>> =>
        /\ \E i \in 1..Len(ctx.criteria) : ctx.criteria[i].kind = "Sort"
        /\ \A i \in 1..Len(sort) : sort[i].field \in ctx.sortable

-----------------------------------------------------------------------------
(* Sort: the documents by their smallest number, or greatest, then by      *)
(* their strings; the ones without a value come last.                      *)
FacetSort(values, candidates, ascending) ==
    LET of(d)   == IF ascending THEN Min(values[d]) ELSE Max(values[d])
        valued  == {d \in candidates \cap DOMAIN values : values[d] # {}}
        order   == SetToSortSeq({of(d) : d \in valued}, LAMBDA a, b : IF ascending THEN a < b ELSE a > b)
    IN  [i \in 1..Len(order) |-> {d \in valued : of(d) = order[i]}]

SortStart(ctx, rule, universe) ==
    IF rule.field \notin DOMAIN ctx.numbers THEN <<>>
    ELSE FacetSort(ctx.numbers[rule.field], universe, rule.ascending)
         \o FacetSort(ctx.strings[rule.field], universe, rule.ascending)

(* GeoSort: the documents that have a position, one by one, closest or     *)
(* farthest first.  Many candidates are taken from the r-tree a cache at a *)
(* time.  What is not a candidate of an iteration is forgotten for good.   *)
fill_buffer(ctx, rule, candidates) ==
    LET order == SetToSortSeq(candidates, LAMBDA d, e :
                    IF rule.ascending THEN ctx.geo[d] < ctx.geo[e] ELSE ctx.geo[d] > ctx.geo[e])
    IN  IF Cardinality(candidates) >= GeoCacheSize
        THEN SubSeq(order, 1, Min({Len(order), GeoCacheSize})) ELSE order

-----------------------------------------------------------------------------
(* ExactAttribute: the documents with an attribute that is the query, then *)
(* the ones with an attribute that starts with it.                         *)
ExactTerms(g) ==
    LET with == {n \in TermNodes(g) : exact_term(g.data[n].term.sub) # NoExactTerm}
        ids  == {g.data[n].term.ids[1] : n \in with}
        at(id) == Min({n \in with : g.data[n].term.ids[1] = id})
    IN  [i \in 1..Cardinality(ids) |-> g.data[at(SetToSortSeq(ids, <)[i])].term]

StartAtFields(ctx, universe, real, candidates, count) ==
    LET field(fid) == [starts |-> {d \in candidates : \A w \in real : d \in get_db_word_fid_docids(ctx, w[1], fid)},
                       exact  |-> universe \cap At(ctx, "field_id_word_count_docids", <<fid, count>>)]
    IN  IF candidates = {} THEN [step |-> "Empty", fields |-> {}]
        ELSE [step |-> "ExactAttribute", fields |-> {field(fid) : fid \in SearchableFids(ctx)}]

ExactAttributeStart(ctx, universe, g) ==
    LET hole(terms) == terms = <<>> \/ terms[1].ids[1] # 1
                       \/ \E i \in 2..Len(terms) : terms[i].ids[1] - terms[i - 1].ids[1] > 1
        words(terms) == UNION {{<<exact_term(t.sub)[i], t.positions[1] + i - 1>> : i \in 1..Len(exact_term(t.sub))} :
                                  t \in Range(terms)}
        placed(real) == {d \in universe : \A w \in real :
                           d \in get_db_word_position_docids(ctx, w[1], bucketed_position(w[2]))}
        at(terms, real) ==
            StartAtFields(ctx, universe, real, placed(real),
                FoldLeft(LAMBDA acc, t : acc + t.positions[2] - t.positions[1] + 1, 0, terms))
        start(terms) == IF hole(terms) THEN [step |-> "Empty", fields |-> {}]
                        ELSE at(terms, {w \in words(terms) : w[1] # StopWord})
    IN  start(ExactTerms(g))

ExactAttributeNext(st, universe) ==
    CASE st.step = "ExactAttribute" ->
            [step |-> "AttributeStarts", bucket |-> universe \cap UNION {f.starts \cap f.exact : f \in st.fields}]
      [] st.step = "AttributeStarts" ->
            [step |-> "Empty", bucket |-> universe \cap UNION {f.starts \ f.exact : f \in st.fields}]
      [] st.step = "Empty" -> [step |-> "Empty", bucket |-> universe]

-----------------------------------------------------------------------------
(* The interface of the rules (ranking_rules.rs).                          *)
Ready(ctx, rule) == [rule |-> rule, keep |-> IF rule.kind = "Geo" THEN DOMAIN ctx.geo ELSE {},
                     query |-> <<>>, iter |-> <<>>]

start_iteration(ctx, r, universe, query, strategy) ==
    LET kind == r.rule.kind
        near == r.keep \cap universe
    IN  CASE kind \in GraphRules ->
                [r EXCEPT !.query = <<query>>,
                          !.iter = GraphStart(ctx, kind, query, IF kind = "Words" THEN strategy ELSE "None")]
          [] kind = "Sort" -> [r EXCEPT !.query = <<query>>, !.iter = SortStart(ctx, r.rule, universe)]
          [] kind = "Geo"  -> [r EXCEPT !.query = <<query>>, !.keep = near,
                                        !.iter = IF near = {} THEN <<>> ELSE fill_buffer(ctx, r.rule, near)]
          [] kind = "ExactAttribute" ->
                [r EXCEPT !.query = <<query>>, !.iter = ExactAttributeStart(ctx, universe, query)]

end_iteration(r) == [r EXCEPT !.query = <<>>, !.iter = <<>>]

Output(r, query, candidates, score) ==
    [none |-> FALSE, panic |-> FALSE, rule |-> r, query |-> query, candidates |-> candidates, score |-> score]
NoBucket(r) == [none |-> TRUE, panic |-> FALSE, rule |-> r]

GraphOutput(r, out) ==
    [Output([r EXCEPT !.iter = out.state], out.query, out.candidates, out.score) EXCEPT !.panic = out.panic]

GeoNext(ctx, r, universe) ==
    LET useful == SelectSeq(r.iter, LAMBDA d : d \in r.keep)
        first(buffer) == Output([r EXCEPT !.iter = Tail(buffer)], r.query[1], {Head(buffer)}, Cardinality(r.keep))
    IN  IF r.keep = {} THEN Output(r, r.query[1], universe, 0)
        ELSE first(IF useful = <<>> THEN fill_buffer(ctx, r.rule, r.keep) ELSE useful)

ExactAttributeOutput(r, out) ==
    Output([r EXCEPT !.iter.step = out.step], r.query[1], out.bucket,
           CASE r.iter.step = "ExactAttribute" -> 3
             [] r.iter.step = "AttributeStarts" -> 2
             [] OTHER -> 1)

(* The scores: a higher one is a better rank of the same rule.             *)
next_bucket(ctx, r, universe) ==
    LET kind == r.rule.kind
    IN  CASE kind \in GraphRules ->
                IF GraphCost(r.iter) = -1 THEN NoBucket(r)
                ELSE GraphOutput(r, GraphNext(ctx, r.iter, universe))
          [] kind = "Sort" ->
                IF r.iter = <<>> THEN Output(r, r.query[1], universe, 0)
                ELSE Output([r EXCEPT !.iter = Tail(@)], r.query[1], Head(r.iter) \cap universe, Len(r.iter))
          [] kind = "Geo" ->
                GeoNext(ctx, [r EXCEPT !.keep = @ \cap universe], universe)
          [] kind = "ExactAttribute" ->
                ExactAttributeOutput(r, ExactAttributeNext(r.iter, universe))
====
