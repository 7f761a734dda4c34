---- MODULE RankingGraph ----
(***************************************************************************)
(* The graph-based ranking rules: words, typo, proximity, fid, position    *)
(* and exactness (ranking_rule_graph/, graph_based_ranking_rule.rs).  A    *)
(* rule turns the query graph into a graph whose edges have a cost and a   *)
(* condition, and returns the documents by the cost of the cheapest path   *)
(* they satisfy.  The search for the paths of a cost learns dead ends as   *)
(* it goes, and removes the conditions that select nothing.                *)
(***************************************************************************)
EXTENDS QueryTerms, TLC

(* A condition: the rule, the term on the left if it matters, the term it  *)
(* leads to, and what the rule asks of it.                                 *)
Condition(rule, left, term, arg) == [rule |-> rule, left |-> left, term |-> term, arg |-> arg]
EdgeTo(cost, cond) == [cost |-> cost, cond |-> cond]

WordsEdges(term) == <<EdgeTo(0, Condition("Words", <<>>, term, 0))>>

(* One edge for each number of typos; an ngram costs its length more.      *)
TypoEdges(term) ==
    LET base == IF IdsLen(term) = 1 THEN 0 ELSE IdsLen(term)
        only(n) == [term EXCEPT !.sub.zero = IF n = 0 THEN @ ELSE Nothing,
                                !.sub.one  = IF n = 1 THEN @ ELSE Nothing,
                                !.sub.two  = IF n = 2 THEN @ ELSE Nothing]
    IN  [i \in 1..(max_typo_cost(term.sub) + 1) |->
            EdgeTo(i - 1 + base, Condition("Typo", <<>>, only(i - 1), i - 1))]

(* A bug: there is no edge for the term wherever it is.                    *)
ProximityEdgesUpTo7(left, term) ==
    LET more == IdsLen(term) - 1
    IN  IF left = <<>> \/ left[1].positions[2] + 1 # term.positions[1]
        THEN <<EdgeTo(more, Condition("Proximity", <<>>, term, 0))>>
        ELSE [i \in 1..7 |-> EdgeTo(more + i - 1, Condition("Proximity", left, term, more + i))]

(* Seven edges for the proximities, one for the term wherever it is.       *)
ProximityEdges(left, term) ==
    LET more == IdsLen(term) - 1
        any  == Condition("Proximity", <<>>, term, 0)
    IN  IF left = <<>> \/ left[1].positions[2] + 1 # term.positions[1] THEN <<EdgeTo(more, any)>>
        ELSE Append([i \in 1..7 |-> EdgeTo(more + i - 1, Condition("Proximity", left, term, more + i))],
                    EdgeTo(7 + more, any))

(* The field ids start at 0 in the code.                                   *)
FidEdges(ctx, term) ==
    LET s == term.sub
        all == UNION {get_db_word_fids(ctx, w.word) : w \in all_single_words_except_prefix_db(ctx, s)}
               \cup UNION {UNION {get_db_word_fids(ctx, w) : w \in Range(p) \ {StopWord}} : p \in all_phrases(ctx, s)}
               \cup (IF use_prefix_db(s) THEN get_db_word_prefix_fids(ctx, PrefixOf(s).word) ELSE {})
        fids == SetToSortSeq(all \cup (IF SearchableFids(ctx) = {} THEN {} ELSE {Max(SearchableFids(ctx))}), <)
    IN  [i \in 1..Len(fids) |-> EdgeTo((fids[i] - 1) * IdsLen(term), Condition("Fid", <<>>, term, fids[i]))]

cost_from_distance(distance) ==
    IF distance <= 1 THEN distance ELSE IF distance <= 4 THEN 2 ELSE IF distance <= 7 THEN 3
    ELSE IF distance <= 11 THEN 4 ELSE IF distance <= 16 THEN 5 ELSE IF distance <= 24 THEN 6
    ELSE IF distance <= 64 THEN 7 ELSE IF distance <= 256 THEN 8 ELSE IF distance <= 1024 THEN 9 ELSE 10

PositionCost(term, position) ==
    LET start == term.positions[1]
        distance == IF position > start THEN position - start ELSE start - position
    IN  FoldSet(LAMBDA i, acc : acc + cost_from_distance(distance + i), 0, 0..(IdsLen(term) - 1))

PositionEdges(ctx, term) ==
    LET s == term.sub
        all == UNION {get_db_word_positions(ctx, w.word) : w \in all_single_words_except_prefix_db(ctx, s)}
               \cup UNION {get_db_word_positions(ctx, FirstWord(p)) : p \in all_phrases(ctx, s)}
               \cup (IF use_prefix_db(s) THEN get_db_word_prefix_positions(ctx, PrefixOf(s).word) ELSE {})
        costs == SetToSortSeq({PositionCost(term, p) : p \in all} \cup {10 * IdsLen(term)}, <)
    IN  [i \in 1..Len(costs) |->
            EdgeTo(costs[i], Condition("Position", <<>>, term, {p \in all : PositionCost(term, p) = costs[i]}))]

ExactnessEdges(term) == <<EdgeTo(0, Condition("Exactness", <<>>, term, TRUE)),
                          EdgeTo(IdsLen(term), Condition("Exactness", <<>>, term, FALSE))>>

build_edges(ctx, rule, left, term) ==
    CASE rule = "Words"     -> WordsEdges(term)
      [] rule = "Typo"      -> TypoEdges(term)
      [] rule = "Proximity" -> ProximityEdges(left, term)
      [] rule = "Fid"       -> FidEdges(ctx, term)
      [] rule = "Position"  -> PositionEdges(ctx, term)
      [] rule = "Exactness" -> ExactnessEdges(term)

-----------------------------------------------------------------------------
(* resolve_condition                                                       *)

(* The last words of what is left of a term, the first words of one, with  *)
(* the phrase they come from.                                              *)
last_words_of_term_derivations(ctx, s) ==
    {<<w, <<>>>> : w \in all_single_words_except_prefix_db(ctx, s)}
    \cup {<<Original(Last(p)), p>> : p \in {q \in all_phrases(ctx, s) : Last(q) # StopWord}}
first_word_of_term_iter(ctx, s) ==
    {<<w.word, <<>>>> : w \in all_single_words_except_prefix_db(ctx, s)}
    \cup {<<Head(p), p>> : p \in {q \in all_phrases(ctx, s) : Head(q) # StopWord}}

InPhrase(ctx, docids, phrase) ==
    IF phrase = <<>> THEN docids ELSE docids \cap compute_phrase_docids(ctx, phrase)

compute_prefix_edges(ctx, l, prefix, forward, backward, universe) ==
    InPhrase(ctx, universe, l[2]) \cap
        (get_db_word_prefix_pair_proximity_docids(ctx, l[1].word, prefix, forward)
         \cup (IF l[2] # <<>> THEN {}
               ELSE get_db_prefix_word_pair_proximity_docids(ctx, prefix, l[1].word, backward)))

compute_non_prefix_edges(ctx, l, r, forward, backward, universe) ==
    InPhrase(ctx, InPhrase(ctx, universe, l[2]), r[2]) \cap
        (get_db_word_pair_proximity_docids(ctx, l[1].word, r[1], forward)
         \cup (IF backward < 1 \/ l[2] # <<>> \/ r[2] # <<>> THEN {}
               ELSE get_db_word_pair_proximity_docids(ctx, r[1], l[1].word, backward)))

ProximityDocids(ctx, cond, universe) ==
    LET right    == cond.term.sub
        forward  == 1 + cond.arg - IdsLen(cond.term)
        backward == cond.arg - IdsLen(cond.term)
        lefts    == last_words_of_term_derivations(ctx, cond.left[1].sub)
        rights   == first_word_of_term_iter(ctx, right)
        worth(l) == \/ Cardinality(rights) <= 1
                    \/ l[2] = <<>> /\ word_docids(ctx, l[1]) = {}
                    \/ universe \cap (IF l[2] = <<>> THEN word_docids(ctx, l[1])
                                      ELSE compute_phrase_docids(ctx, l[2])) # {}
    IN  (IF ~use_prefix_db(right) THEN {}
         ELSE UNION {compute_prefix_edges(ctx, l, PrefixOf(right).word, forward, backward, universe) : l \in lefts})
        \cup UNION {compute_non_prefix_edges(ctx, lr[1], lr[2], forward, backward, universe) :
                        lr \in {l \in lefts : worth(l)} \X rights}

ExactDocids(ctx, s) ==
    IF exact_term(s) = NoExactTerm THEN {}
    ELSE IF s.original.phrase # <<>> THEN compute_phrase_docids(ctx, s.original.phrase)
         ELSE word_docids(ctx, Original(s.original.original))

resolve_condition(ctx, cond, universe) ==
    LET s == cond.term.sub
    IN  universe \cap
        CASE cond.rule = "Fid" -> compute_query_term_subset_docids_within_field_id(ctx, s, cond.arg)
          [] cond.rule = "Position" ->
                UNION {compute_query_term_subset_docids_within_position(ctx, s, p) : p \in cond.arg}
          [] cond.rule = "Proximity" /\ cond.left # <<>> -> ProximityDocids(ctx, cond, universe)
          [] cond.rule = "Exactness" /\ cond.arg -> ExactDocids(ctx, s)
          [] OTHER -> compute_query_term_subset_docids(ctx, s)

(* What a condition leaves of its terms for the next rule.                 *)
SubsetsUsed(cond) ==
    [start |-> cond.left,
     end |-> IF cond.rule = "Exactness" /\ cond.arg
             THEN [cond.term EXCEPT !.sub = [keep_only_exact_term(@) EXCEPT !.mandatory = TRUE]]
             ELSE cond.term]

-----------------------------------------------------------------------------
(* RankingRuleGraph::build.  removal gives, for a node that may be         *)
(* skipped, the nodes that must then be skipped too.                       *)
Edge(src, dst, cost, cond, skip) ==
    [src |-> src, dst |-> dst, cost |-> cost, cond |-> cond, skip |-> skip]

EdgesBetween(ctx, rule, g, removal, src, dst) ==
    LET to(term, edges) ==
            (IF removal[dst] = <<>> THEN <<>>
             ELSE <<Edge(src, dst, IdsLen(term), <<>>, removal[dst][1])>>)
            \o [i \in 1..Len(edges) |-> Edge(src, dst, edges[i].cost, <<edges[i].cond>>, {})]
        left == IF src = Root THEN <<>> ELSE <<g.data[src].term>>
    IN  IF dst = End THEN <<Edge(src, dst, 0, <<>>, {})>>
        ELSE to(g.data[dst].term, build_edges(ctx, rule, left, g.data[dst].term))

build(ctx, rule, g, removal) ==
    LET from(n, dests) ==
            FlattenSeq([i \in 1..Len(dests) |-> EdgesBetween(ctx, rule, g, removal, n, dests[i])])
    IN  FlattenSeq([n \in 1..Len(g.data) |-> from(n, SetToSortSeq(g.succ[n], <))])

(* find_all_costs_to_end: the costs of the paths from a node to the end,   *)
(* by going back from the end until nothing changes.                       *)
RECURSIVE CostsFrom(_, _, _)
CostsFrom(g, edges, known) ==
    LET longer == [n \in Nodes(g) |->
                    IF n = End THEN {0}
                    ELSE UNION {{e.cost + c : c \in known[e.dst]} : e \in {x \in edges : x.src = n}}]
    IN  IF longer = known THEN known ELSE CostsFrom(g, edges, longer)
find_all_costs_to_end(g, edges) == CostsFrom(g, edges, [n \in Nodes(g) |-> {}])

(* update_all_costs_before_node: the nodes from which the given one can be *)
(* reached lose the costs that no edge gives them any more.                *)
RECURSIVE CostsLeft(_, _, _)
CostsLeft(edges, before, known) ==
    LET left == [n \in DOMAIN known |->
                    IF n \notin before THEN known[n]
                    ELSE {c \in known[n] : \E e \in edges : e.src = n /\ c - e.cost \in known[e.dst]}]
    IN  IF left = known THEN known ELSE CostsLeft(edges, before, left)
(* A bug: only the node itself loses costs.                                *)
UpdateCostsOfNode(g, edges, costs, node) == CostsLeft(edges, {node}, costs)

update_all_costs_before_node(g, edges, costs, node) ==
    LET reaches[n \in Nodes(g)] == n = node \/ \E m \in g.succ[n] : reaches[m]
    IN  CostsLeft(edges, {n \in Nodes(g) \ {End} : reaches[n]}, costs)

(* DeadEndsCache: the conditions forbidden after a prefix of a path.       *)
forbid_condition_after_prefix(dead, prefix, cond) == dead \cup {<<prefix, cond>>}
forbidden_conditions_after_prefix(dead, path) == {d[2] : d \in {x \in dead : x[1] = path}}
forbidden_conditions_for_all_prefixes_up_to(dead, path) ==
    {d[2] : d \in {x \in dead : IsPrefix(x[1], path)}}

(* ConditionDocIdsCache: the documents of a condition in the universe; the *)
(* number of documents of the universe tells whether it has shrunk.        *)
get_computed_condition(ctx, c, cond) ==
    LET len == Cardinality(c.universe)
    IN  IF cond \notin DOMAIN c.cache
        THEN (cond :> [docids |-> resolve_condition(ctx, cond, c.universe), len |-> len]) @@ c.cache
        ELSE IF c.cache[cond].len = len THEN c.cache
        ELSE [c.cache EXCEPT ![cond] = [docids |-> @.docids \cap c.universe, len |-> len]]

Conditions(sub, k) == [i \in 1..k |-> sub[i].cond]

(* A bug: the whole path is mistaken for its first condition.              *)
EmptyAfterFirst(sub, docids) == {Conditions(sub, 1)}

(* What a condition that selects nothing after the path so far is known to *)
(* come to nothing after: the whole path, and the shorter parts of it that *)
(* have no document of the condition.                                      *)
EmptyAfter(sub, docids) ==
    {Conditions(sub, Len(sub))}
    \cup {Conditions(sub, k) : k \in {j \in 1..(Len(sub) - 1) : docids \cap sub[j].docids = {}}}

(* visit_path_condition: the condition is added to the path, or the path   *)
(* is empty and the reason is remembered.                                  *)
AddCondition(c, cond, docids, latest) ==
    LET gone == {e \in c.edges : e.cond = <<cond>>}
    IN  IF docids = {}
        THEN [ok |-> FALSE,
              c |-> [c EXCEPT !.dead = forbid_condition_after_prefix(@, <<>>, cond),
                              !.edges = @ \ gone, !.removed = @ \cup {e.src : e \in gone}]]
        ELSE IF latest # {}
        THEN [ok |-> TRUE, c |-> [c EXCEPT !.sub = Append(@, [cond |-> cond, docids |-> latest])]]
        ELSE [ok |-> FALSE,
              c |-> [c EXCEPT !.dead = @ \cup {<<p, cond>> : p \in EmptyAfter(c.sub, docids)}]]

visit_path_condition(ctx, c, cond) ==
    LET added(cached, docids) ==
            AddCondition(cached, cond, docids,
                         IF c.sub = <<>> THEN docids ELSE docids \cap Last(c.sub).docids)
        within(cache) == added([c EXCEPT !.cache = cache], cache[cond].docids)
    IN  within(get_computed_condition(ctx, c, cond))

RECURSIVE VisitConditions(_, _, _)
VisitConditions(ctx, c, conds) ==
    IF conds = <<>> THEN [ok |-> TRUE, c |-> c]
    ELSE LET then(r) == IF r.ok THEN VisitConditions(ctx, r.c, Tail(conds)) ELSE r
         IN  then(visit_path_condition(ctx, c, Head(conds)))

(* The closure given to visit_paths: what the path shares with the one     *)
(* before it is kept, the rest is computed.  c.stop ends the search, and   *)
(* c.panic records an assertion that fails.                                *)
PathFound(c, path, docids) ==
    LET rest == IF c.sub = <<>> THEN <<>> ELSE Front(c.sub)
    IN  [c EXCEPT !.good = Append(@, path), !.bucket = @ \cup docids,
                  !.universe = @ \ docids,
                  !.sub = [i \in 1..Len(rest) |-> [rest[i] EXCEPT !.docids = @ \ docids]],
                  !.panic = docids = {} \/ Len(c.sub) # Len(path),
                  !.stop = docids = {} \/ c.universe \subseteq docids]

visit(ctx, c, path) ==
    LET shared == Max({k \in 0..Min({Len(path), Len(c.sub)}) :
                        \A i \in 1..k : c.sub[i].cond = path[i]})
        visited(n) == VisitConditions(ctx, [c EXCEPT !.sub = SubSeq(@, 1, n)],
                                      SubSeq(path, n + 1, Len(path)))
        found(r) ==
            IF ~r.ok THEN r.c
            ELSE PathFound(r.c, path, IF r.c.sub = <<>> THEN r.c.universe ELSE Last(r.c.sub).docids)
    IN  IF c.universe = {} THEN [c EXCEPT !.stop = TRUE] ELSE found(visited(shared))

(* PathVisitor: a depth-first search of the paths of a cost.  k holds what *)
(* the search does not change, v the state of the visitor.                 *)
RECURSIVE VisitEdges(_, _, _, _, _)

visit_no_condition(k, v, e, c) ==
    IF v.remaining \notin k.costs[e.dst] THEN [c |-> c, valid |-> FALSE]
    ELSE IF e.dst = End THEN [c |-> visit(k.ctx, c, v.path), valid |-> TRUE]
    ELSE VisitEdges(k, [v EXCEPT !.skip = @ \cup e.skip], k.edges_of[e.dst], c, FALSE)

visit_condition(k, v, e, c) ==
    LET cond == e.cond[1]
        path == Append(v.path, cond)
    IN  IF \/ cond \in v.forbidden
           \/ e.dst \in v.skip
           \/ e.skip \cap v.visited # {}
           \/ v.remaining \notin k.costs[e.dst]
        THEN [c |-> c, valid |-> FALSE]
        ELSE VisitEdges(k, [v EXCEPT !.path = path, !.visited = @ \cup {e.dst},
                                     !.forbidden = @ \cup forbidden_conditions_after_prefix(c.dead, path),
                                     !.skip = @ \cup e.skip],
                        k.edges_of[e.dst], c, FALSE)

VisitEdges(k, v, edges, c, valid) ==
    IF edges = <<>> THEN [c |-> c, valid |-> valid]
    ELSE LET walked(e, w) ==
                 IF e \notin c.edges \/ v.remaining < e.cost THEN [c |-> c, valid |-> FALSE]
                 ELSE IF e.cond = <<>> THEN visit_no_condition(k, w, e, c)
                 ELSE visit_condition(k, w, e, c)
             further(r, forbidden) ==
                 IF r.c.stop THEN r
                 ELSE IF r.valid /\ Range(v.path) \cap forbidden # {} THEN r
                 ELSE VisitEdges(k, [v EXCEPT !.forbidden = forbidden], Tail(edges), r.c, valid \/ r.valid)
             after(r) ==
                 further(r, IF r.valid THEN forbidden_conditions_for_all_prefixes_up_to(r.c.dead, v.path)
                            ELSE v.forbidden)
         IN  after(walked(Head(edges), [v EXCEPT !.remaining = @ - Head(edges).cost]))

visit_paths(ctx, g, edges, costs, cost, c) ==
    LET of(n) == SelectSeq(edges, LAMBDA e : e.src = n)
    IN  VisitEdges([ctx |-> ctx, costs |-> costs, edges_of |-> [n \in Nodes(g) |-> of(n)]],
                   [remaining |-> cost, path |-> <<>>, visited |-> {}, forbidden |-> {}, skip |-> {}],
                   of(Root), c, FALSE).c

-----------------------------------------------------------------------------
(* GraphBasedRankingRule.  Only words has a matching strategy.             *)
Removal(g, strategy) ==
    LET group(order, n) == {i \in 1..Len(order) : n \in order[i]}
        before(order) ==
            [n \in Nodes(g) |->
                IF group(order, n) = {} THEN <<>>
                ELSE <<UNION {order[j] : j \in 1..(Min(group(order, n)) - 1)}>>]
    IN  before(IF strategy = "Last" THEN removal_order_for_terms_matching_strategy_last(g) ELSE <<>>)

GraphStart(ctx, rule, g, strategy) ==
    LET phrases(n) == IF strategy = "None" \/ n = 0 THEN 0 ELSE n - 1
        state(edges, costs) ==
            [query |-> g, edges |-> edges, live |-> Range(edges), dead |-> {}, cache |-> <<>>,
             costs |-> costs, cur_cost |-> 0,
             next_max_cost |-> 1 + phrases(words_in_phrases_count(g))
                               + (IF costs[Root] = {} THEN 0 ELSE Max(costs[Root]))]
        started(edges) == state(edges, find_all_costs_to_end(g, Range(edges)))
    IN  started(build(ctx, rule, g, Removal(g, strategy)))

GraphCost(st) ==
    LET left == {c \in st.costs[Root] : c >= st.cur_cost} IN IF left = {} THEN -1 ELSE Min(left)

(* A bug: the rank is the cost.                                            *)
RankIsCost(st, cost) == cost
Rank(st, cost) == st.next_max_cost - cost

(* next_bucket: the documents of the paths of the next cost, the rank, and *)
(* the query graph made of the paths that found some.                      *)
CostsAfter(st, c) ==
    CASE Cardinality(c.removed) = 0 -> st.costs
      [] Cardinality(c.removed) = 1 ->
            update_all_costs_before_node(st.query, c.edges, st.costs, CHOOSE n \in c.removed : TRUE)
      [] OTHER -> find_all_costs_to_end(st.query, c.edges)

GraphNext(ctx, st, universe) ==
    LET visited(cost) ==
            visit_paths(ctx, st.query, st.edges, st.costs, cost,
                [universe |-> universe, edges |-> st.live, dead |-> st.dead, cache |-> st.cache,
                 sub |-> <<>>, good |-> <<>>, bucket |-> {}, removed |-> {}, stop |-> FALSE, panic |-> FALSE])
        used(good) == [i \in 1..Len(good) |-> [j \in 1..Len(good[i]) |-> SubsetsUsed(good[i][j])]]
        bucket(cost, c) ==
            [state |-> [st EXCEPT !.cur_cost = cost + 1, !.live = c.edges, !.dead = c.dead,
                                  !.cache = c.cache, !.costs = CostsAfter(st, c)],
             query |-> build_from_paths(used(c.good)), candidates |-> c.bucket,
             score |-> Rank(st, cost), panic |-> c.panic]
    IN  bucket(GraphCost(st), visited(GraphCost(st)))
====
