---- MODULE FacetSearch ----
(***************************************************************************)
(* Reading the facet database of a field (milli/src/search/facet): the     *)
(* documents within bounds, the documents in ascending and in descending   *)
(* order of their values, and the distribution of the values among the     *)
(* candidates of a search.  All of them walk the levels from the highest   *)
(* one down and descend into a group only when they have to.               *)
(***************************************************************************)
EXTENDS FacetTree

(* Bounds of a range, as std::ops::Bound.                                  *)
Included(v) == [kind |-> "included", v |-> v]
Excluded(v) == [kind |-> "excluded", v |-> v]
Unbounded == [kind |-> "unbounded"]

(* The side of the left bound a key is on, and of the right one.           *)
AboveLeft(left, k) == CASE left.kind = "included" -> k >= left.v
                        [] left.kind = "excluded" -> k > left.v
                        [] OTHER -> TRUE
BelowRight(right, k) == CASE right.kind = "included" -> k <= right.v
                          [] right.kind = "excluded" -> k < right.v
                          [] OTHER -> TRUE

---------------------------------------------------------------------------
(* facet_range_search.rs *)

run_level_0(db, left, right, start, n) ==
    UNION {db[0][k].docids :
             k \in {k \in Range(RangeFrom(db[0], start, n)) :
                      AboveLeft(left, k) /\ BelowRight(right, k)}}

(* The range of the element before next, or of the last one when next is   *)
(* the rightmost bound: nothing of it, all of it, or some of it is wanted. *)
SkipUntil(left, next) ==
    CASE left.kind = "unbounded" -> FALSE
      [] left.kind = "included" /\ next.kind = "included" -> left.v > next.v
      [] OTHER -> left.v >= next.v
StopAt(right, key) == ~BelowRight(right, key)
(* A bug: an excluded right bound is compared like an included one.        *)
WholeGroupUpTo(left, right, key, next) ==
    /\ AboveLeft(left, key)
    /\ right.kind = "unbounded" \/ next.v <= right.v

WholeGroup(left, right, key, next) ==
    /\ AboveLeft(left, key)
    /\ CASE right.kind = "unbounded" -> TRUE
         [] right.kind = "excluded" /\ next.kind = "included" ->
              next.v < right.v
         [] OTHER -> next.v <= right.v

(* run: over the n elements of a level from start on, the last of which    *)
(* ends at rightmost.  A recursive function on the level.                  *)
run(db, left, right, level, first, last) ==
    LET visit[l \in 0..level, start \in DOMAIN db[0],
              rightmost \in {Included(last)} \cup {Excluded(v) : v \in DOMAIN db[0]},
              n \in 1..(Cardinality(DOMAIN db[0]))] ==
          IF l = 0 THEN run_level_0(db, left, right, start, n)
          ELSE LET keys == RangeFrom(db[l], start, n)
                   next(i) == IF i < Len(keys) THEN Excluded(keys[i + 1])
                              ELSE rightmost
                   group(i) == db[l][keys[i]]
                   taken(i) ==
                     IF \/ SkipUntil(left, next(i))
                        \/ StopAt(right, keys[i])
                     THEN {}
                     ELSE IF WholeGroup(left, right, keys[i], next(i))
                     THEN group(i).docids
                     ELSE visit[l - 1, keys[i], next(i), group(i).size]
               IN  UNION {taken(i) : i \in DOMAIN keys}
    IN  visit[level, first, Included(last), Cardinality(DOMAIN db[0])]

find_docids_of_facet_within_bounds(db, left, right) ==
    IF DOMAIN db[0] = {} THEN {}
    ELSE run(db, left, right, get_highest_level(db),
             get_first_facet_value(db), get_last_facet_value(db))

---------------------------------------------------------------------------
(* facet_sort_ascending.rs, facet_sort_descending.rs: the iterators as the *)
(* sequence of <<documents, value>> they return.  The stack of iterators   *)
(* is a sequence of [docids, level, keys, right], keys being what the      *)
(* iterator has still to yield.                                            *)

Front(s) == SubSeq(s, 1, Len(s) - 1)
Top(s) == s[Len(s)]
RevSeq(s) == [i \in DOMAIN s |-> s[Len(s) + 1 - i]]

(* A bug: the right bound of the group is forgotten.                       *)
RevRangeUnbounded(level, start, right, n) ==
    LET s == RevSeq(Sorted({k \in DOMAIN level : k >= start}))
    IN  SubSeq(s, 1, IF n < Len(s) THEN n ELSE Len(s))

(* The keys of a level within [start, right), in descending order, at most *)
(* n of them: db.rev_range(start..right).take(n).                          *)
RevRange(level, start, right, n) ==
    LET s == RevSeq(Sorted({k \in DOMAIN level : k >= start /\ BelowRight(right, k)}))
    IN  SubSeq(s, 1, IF n < Len(s) THEN n ELSE Len(s))

(* One turn of the loop of next().                                         *)
SortStep(db, desc, st) ==
    LET top   == Top(st.stack)
        pop   == [st EXCEPT !.stack = Front(@)]
        key   == top.keys[1]
        group == db[top.level][key]
        found == group.docids \cap top.docids
        rest(docids) == [top EXCEPT !.docids = docids, !.keys = Tail(@),
                                    !.right = Excluded(key)]
        below == [docids |-> found, level |-> top.level - 1,
                  keys |-> IF desc
                           THEN RevRange(db[top.level - 1], key, top.right, group.size)
                           ELSE RangeFrom(db[top.level - 1], key, group.size),
                  right |-> top.right]
    IN  IF top.keys = << >> \/ top.docids = {} THEN pop
        ELSE IF found = {}
        THEN [st EXCEPT !.stack = Append(Front(@), rest(top.docids))]
        ELSE IF top.level = 0
        THEN [stack |-> Append(Front(st.stack), rest(top.docids \ found)),
              out   |-> Append(st.out, <<found, key>>)]
        ELSE [st EXCEPT !.stack = Append(Append(Front(@), rest(top.docids \ found)), below)]

FacetSort(db, desc, candidates) ==
    LET high  == get_highest_level(db)
        last  == get_last_facet_value(db)
        first == [docids |-> candidates, level |-> high,
                  keys   |-> IF desc THEN RevSeq(AllKeys(db[high])) ELSE AllKeys(db[high]),
                  right  |-> Included(last)]
        steps == 4 * database_len(db) + 4
        turn[i \in 0..steps] ==
            IF i = 0 THEN [stack |-> <<first>>, out |-> << >>]
            ELSE LET prev == turn[i - 1]
                 IN  IF prev.stack = << >> THEN prev ELSE SortStep(db, desc, prev)
    IN  IF DOMAIN db[0] = {} THEN << >> ELSE turn[steps].out

ascending_facet_sort(db, candidates) == FacetSort(db, FALSE, candidates)
descending_facet_sort(db, candidates) == FacetSort(db, TRUE, candidates)

facet_min_value(db, candidates) ==
    LET s == ascending_facet_sort(db, candidates)
    IN  IF s = << >> THEN {} ELSE {s[1][2]}
facet_max_value(db, candidates) ==
    LET s == descending_facet_sort(db, candidates)
    IN  IF s = << >> THEN {} ELSE {s[1][2]}

---------------------------------------------------------------------------
(* facet_distribution_iter.rs: the values and their number of candidates,  *)
(* as the sequence of the calls of the callback.                           *)

(* Concatenates the sequences f[1], ..., f[n].                             *)
Flatten(f, n) ==
    LET upto[i \in 0..n] == IF i = 0 THEN << >> ELSE upto[i - 1] \o f[i]
    IN  upto[n]

lexicographically_iterate_over_facet_distribution(db, candidates) ==
    LET count(l, k, c) == db[l][k].docids \cap c
        iterate[l \in Levels, start \in DOMAIN db[0],
                n \in 1..Cardinality(DOMAIN db[0]), c \in SUBSET candidates] ==
            LET keys == RangeFrom(db[l], start, n)
                of(i) == count(l, keys[i], c)
                calls == [i \in DOMAIN keys |->
                    CASE of(i) = {} -> << >>
                      [] of(i) # {} /\ l = 0 -> <<<<keys[i], Cardinality(of(i))>>>>
                      [] OTHER -> iterate[l - 1, keys[i], db[l][keys[i]].size, of(i)]]
            IN  Flatten(calls, Len(keys))
    IN  IF DOMAIN db[0] = {} THEN << >>
        ELSE iterate[get_highest_level(db), get_first_facet_value(db),
                     Cardinality(DOMAIN db[0]), candidates]

(* A bug: the lowest level comes first, whatever the counts.               *)
LowestLevelBefore(a, b) == \/ a.level < b.level
                           \/ a.level = b.level /\ a.count > b.count
                           \/ a.level = b.level /\ a.count = b.count /\ a.left_bound > b.left_bound

(* A heap of entries; the next one is that with the greatest count, then   *)
(* the lowest level, then the greatest left bound.                         *)
Before(a, b) == \/ a.count > b.count
                \/ a.count = b.count /\ a.level < b.level
                \/ a.count = b.count /\ a.level = b.level /\ a.left_bound > b.left_bound
LevelEntries(db, l, keys, candidates) ==
    {[count |-> Cardinality(db[l][k].docids \cap candidates), level |-> l,
      left_bound |-> k, size |-> db[l][k].size] :
       k \in {k \in Range(keys) : db[l][k].docids \cap candidates # {}}}

count_iterate_over_facet_distribution(db, candidates) ==
    LET high == get_highest_level(db)
        pop(h) == CHOOSE e \in h : \A f \in h \ {e} : Before(e, f)
        steps == database_len(db)
        turn[i \in 0..steps] ==
            IF i = 0
            THEN [heap |-> LevelEntries(db, high, AllKeys(db[high]), candidates),
                  out  |-> << >>]
            ELSE LET prev == turn[i - 1]
                     h == prev.heap
                     e == pop(h)
                 IN  CASE h = {} -> prev
                       [] h # {} /\ e.level = 0 ->
                            [heap |-> h \ {e},
                             out  |-> Append(prev.out, <<e.left_bound, e.count>>)]
                       [] OTHER ->
                            [prev EXCEPT !.heap = (h \ {e}) \cup
                               LevelEntries(db, e.level - 1,
                                            RangeFrom(db[e.level - 1], e.left_bound, e.size),
                                            candidates)]
    IN  IF DOMAIN db[0] = {} THEN << >> ELSE turn[steps].out

---------------------------------------------------------------------------
(***************************************************************************)
(* The distribution of the values of a field among the candidates of a     *)
(* search (milli/src/search/facet/facet_distribution.rs).  A field is a    *)
(* record of its facet database and of the values of each document; a      *)
(* distribution is the sequence of its <<value, count>>, in the order in   *)
(* which they were inserted.                                               *)
(***************************************************************************)

Field(facets, ofDocument) == [facets |-> facets, ofDocument |-> ofDocument]

(* entry(value).or_insert(0) += 1 *)
CountValue(distribution, v) ==
    IF \E i \in DOMAIN distribution : distribution[i][1] = v
    THEN [i \in DOMAIN distribution |->
            IF distribution[i][1] = v THEN <<v, distribution[i][2] + 1>> ELSE distribution[i]]
    ELSE Append(distribution, <<v, 1>>)

(* The values of the documents, one document after the other.              *)
Visits(field, docids) ==
    LET of == [i \in DOMAIN docids |->
                 LET vs == Sorted(field.ofDocument[docids[i]])
                 IN  [j \in DOMAIN vs |-> [docid |-> docids[i], v |-> vs[j]]]]
    IN  Flatten(of, Len(docids))

(* The loops over the documents and their values.  When the limit is       *)
(* reached, that of the numbers goes on with the next document.            *)
CountVisits(visits, max, numbers) ==
    LET after[i \in 0..Len(visits)] ==
          IF i = 0 THEN [distribution |-> << >>, left |-> {}]
          ELSE LET prev  == after[i - 1]
                   visit == visits[i]
                   next  == CountValue(prev.distribution, visit.v)
               IN  IF prev.left # {} /\ (numbers => visit.docid \in prev.left) THEN prev
                   ELSE [distribution |-> next,
                         left |-> IF Len(next) = max THEN {visit.docid} ELSE {}]
    IN  after[Len(visits)].distribution

(* A bug: the strings go on with the next document too.                    *)
StringsGoOn(field, docids, max) ==
    SortSeq(CountVisits(Visits(field, docids), max, TRUE), LAMBDA x, y : x[1] < y[1])

NumbersFromDocuments(field, docids, max) == CountVisits(Visits(field, docids), max, TRUE)
StringsFromDocuments(field, docids, max) ==
    SortSeq(CountVisits(Visits(field, docids), max, FALSE), LAMBDA x, y : x[1] < y[1])

(* The callbacks of the iterations over the levels: they stop when the     *)
(* distribution, with what it held before, is as long as the limit.        *)
FromFacetLevels(before, field, candidates, order_by, max) ==
    LET calls == IF order_by = "lexicographic"
                 THEN lexicographically_iterate_over_facet_distribution(field.facets, candidates)
                 ELSE count_iterate_over_facet_distribution(field.facets, candidates)
        full == {i \in DOMAIN calls : Len(before) + i = max}
    IN  before \o SubSeq(calls, 1, IF full = {} THEN Len(calls) ELSE Min(full))

(* facet_values, few being that there are at most CANDIDATES_THRESHOLD     *)
(* candidates: the numbers of the field, then its strings.                 *)
facet_values(numbers, strings, order_by, docids, few, max) ==
    IF order_by = "lexicographic" /\ few
    THEN NumbersFromDocuments(numbers, docids, max) \o StringsFromDocuments(strings, docids, max)
    ELSE FromFacetLevels(FromFacetLevels(<< >>, numbers, Range(docids), order_by, max),
                         strings, Range(docids), order_by, max)

(* compute_stats: the smallest and the greatest number, if there is one.   *)
compute_stats(field, candidates) ==
    LET min == facet_min_value(field.facets, candidates)
        max == facet_max_value(field.facets, candidates)
    IN  IF min = {} \/ max = {} THEN {} ELSE {<<CHOOSE v \in min : TRUE, CHOOSE v \in max : TRUE>>}

---------------------------------------------------------------------------
(* SearchForFacetValues (milli/src/search/mod.rs): the values of the       *)
(* candidates that match a query.                                          *)

(* The loops of execute: a value that is not in the database any more, or  *)
(* that no candidate has, is skipped, and max values are enough.           *)
FacetValueHits(level0, keys, candidates, max) ==
    LET count(v) == IF v \in DOMAIN level0 THEN Cardinality(level0[v].docids \cap candidates) ELSE 0
        found == SelectSeq(keys, LAMBDA v : count(v) # 0)
        hits == [i \in DOMAIN found |-> <<found[i], count(found[i])>>]
    IN  IF Len(hits) <= max THEN hits ELSE SubSeq(hits, 1, max)

(* A bug: without a query the values are those of the FST that are first,  *)
(* present or not.                                                         *)
FacetValuesOfFst(facets, fst, query, candidates, max) ==
    LET keys == Sorted(IF query.kind = "none" THEN fst ELSE fst \cap query.matched)
    IN  FacetValueHits(facets[0], SubSeq(keys, 1, IF Len(keys) < max THEN Len(keys) ELSE max), candidates, max)

(* execute: a query that is one of the exact words is that value; another  *)
(* one is an automaton, with or without typos, on the FST; without a query *)
(* the values are read from level 0.                                       *)
SearchForFacetValues(facets, fst, query, candidates, max) ==
    CASE query.kind = "none" -> FacetValueHits(facets[0], AllKeys(facets[0]), candidates, max)
      [] query.kind = "exact word" -> FacetValueHits(facets[0], Sorted(query.matched), candidates, 1)
      [] OTHER -> FacetValueHits(facets[0], Sorted(fst \cap query.matched), candidates, max)
====
