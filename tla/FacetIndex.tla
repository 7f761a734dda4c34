---- MODULE FacetIndex ----
(***************************************************************************)
(* The facet databases of one field as the indexing and the deletion of    *)
(* documents drive them (milli/src/update/facet, update/delete_documents): *)
(* every batch of documents goes through FacetsUpdate, every hard deletion *)
(* through FacetsDelete, and each of them picks the bulk or the            *)
(* incremental algorithm by comparing the amount of work with the length   *)
(* of the database.                                                        *)
(***************************************************************************)
EXTENDS FacetSearch

CONSTANTS Docs,          \* the document ids
          Values,        \* the facet values of the field
          MaxPerDoc,     \* bound: the values of one document
          MaxBatch,      \* bound: the documents of one batch
          UpdateRatio,   \* 50: FacetsUpdate::execute
          DeleteRatio    \* 150: FacetsDelete::execute

ASSUME FacetRatios == UpdateRatio \in Nat \ {0} /\ DeleteRatio \in Nat \ {0}

VARIABLES db,        \* facet_id_f64_docids or facet_id_string_docids
          values,    \* field_id_docid_facet_*: the values of each document
          faceted,   \* faceted_documents_ids
          fst        \* facet_id_string_fst

vars == <<db, values, faceted, fst>>

Init ==
    /\ db = EmptyFacets
    /\ values = [d \in Docs |-> {}]
    /\ faceted = {}
    /\ fst = {}

(* The new data of a batch: each value with the documents that bring it.   *)
NewData(batch) ==
    [v \in UNION Range(batch) |-> {d \in DOMAIN batch : v \in batch[d]}]

(* FacetsUpdateIncremental::execute: the values in their order.            *)
InsertAll(new_data) ==
    LET order == Sorted(DOMAIN new_data)
        after[i \in 0..Len(order)] ==
            IF i = 0 THEN db ELSE insert(after[i - 1], order[i], new_data[order[i]])
    IN  after[Len(order)]

UsesBulkUpdate(new_data) ==
    Cardinality(DOMAIN new_data) >= database_len(db) \div UpdateRatio

(* A bug: the FST is only built again by the bulk update.                  *)
FacetsUpdateStaleFst(batch) ==
    LET new_data == NewData(batch)
        bulk     == update(update_level0(db[0], new_data))
    IN  /\ DOMAIN new_data # {}
        /\ \A d \in DOMAIN batch : values[d] = {}
        /\ values' = batch @@ values
        /\ IF UsesBulkUpdate(new_data)
           THEN db' = bulk.db /\ faceted' = bulk.docids /\ fst' = DOMAIN db'[0]
           ELSE /\ db' = InsertAll(new_data)
                /\ faceted' = faceted \cup UNION Range(new_data)
                /\ UNCHANGED fst

(* FacetsUpdate::execute, for documents that are not in the index yet.  The*)
(* FST of the string facets is built again from level 0.                   *)
FacetsUpdate(batch) ==
    LET new_data == NewData(batch)
        bulk     == update(update_level0(db[0], new_data))
    IN  /\ DOMAIN new_data # {}
        /\ \A d \in DOMAIN batch : values[d] = {}
        /\ values' = batch @@ values
        /\ IF UsesBulkUpdate(new_data)
           THEN db' = bulk.db /\ faceted' = bulk.docids
           ELSE /\ db' = InsertAll(new_data)
                /\ faceted' = faceted \cup UNION Range(new_data)
        /\ fst' = DOMAIN db'[0]

UsesBulkDelete(affected) ==
    Cardinality(affected) >= database_len(db) \div DeleteRatio

(* A bug: a value that loses its last document stays in level 0.           *)
BulkDeleteKeepsEmpty(affected, docids) ==
    [v \in DOMAIN db[0] |->
        IF v \in affected THEN [db[0][v] EXCEPT !.docids = @ \ docids] ELSE db[0][v]]

BulkDelete(affected, docids) ==
    LET left == [v \in DOMAIN db[0] |->
                    IF v \in affected THEN [db[0][v] EXCEPT !.docids = @ \ docids]
                    ELSE db[0][v]]
    IN  Drop(left, {v \in affected : left[v].docids = {}})

(* The incremental deletion takes the affected values in the order order.  *)
DeleteAll(order, docids) ==
    LET after[i \in 0..Len(order)] ==
            IF i = 0 THEN db ELSE delete(after[i - 1], order[i], docids)
    IN  after[Len(order)]

(* The hard deletion of documents: their entries in field_id_docid_facet   *)
(* give the affected values, which FacetsDelete::execute takes in the      *)
(* order of a HashSet.                                                     *)
FacetsDelete(docids) ==
    LET affected == UNION {values[d] : d \in docids}
        level0   == BulkDelete(affected, docids)
    IN  /\ docids # {}
        /\ affected # {}
        /\ values' = [d \in Docs |-> IF d \in docids THEN {} ELSE values[d]]
        /\ IF UsesBulkDelete(affected)
           THEN /\ db' = (IF level0 # db[0] THEN update(level0).db ELSE db)
                /\ faceted' = (IF level0 # db[0] THEN update(level0).docids
                               ELSE faceted \ docids)
           ELSE /\ \E order \in [1..Cardinality(affected) -> affected] :
                     /\ IsInjective(order)
                     /\ db' = DeleteAll(order, docids)
                /\ faceted' = faceted \ docids
        /\ UNCHANGED fst

(* ClearDocuments: every database of the field is emptied.                 *)
Clear ==
    /\ db' = EmptyFacets
    /\ values' = [d \in Docs |-> {}]
    /\ faceted' = {}
    /\ fst' = {}

Batches == UNION {[ds -> {vs \in SUBSET Values : Cardinality(vs) <= MaxPerDoc}] :
                    ds \in {ds \in SUBSET Docs : Cardinality(ds) \in 1..MaxBatch}}

Next ==
    \/ \E batch \in Batches : FacetsUpdate(batch)
    \/ \E docids \in SUBSET Docs : FacetsDelete(docids)
    \/ Clear

Spec == Init /\ [][Next]_vars

---------------------------------------------------------------------------
TypeOK ==
    /\ \A l \in Levels : \A k \in DOMAIN db[l] :
         k \in Values /\ db[l][k].size \in 1..(MaxGroupSize - 1) /\ db[l][k].docids \subseteq Docs
    /\ values \in [Docs -> SUBSET Values]
    /\ faceted \subseteq Docs
    /\ fst \subseteq Values

(* Level 0 is what the documents say, whatever mixture of bulk and         *)
(* incremental updates and deletions built it, and faceted_documents_ids   *)
(* holds exactly the documents with a value of the field.                  *)
Level0IsTheDocuments ==
    /\ DOMAIN db[0] = UNION Range(values)
    /\ \A v \in DOMAIN db[0] : db[0][v] = Group(1, {d \in Docs : v \in values[d]})
    /\ faceted = {d \in Docs : values[d] # {}}

(* The entries of every level cut the level below into consecutive groups, *)
(* each starting at its own left bound, leaving nothing out, and hold the  *)
(* union of the documents below (mod.rs: incremental and bulk alike).      *)
GroupsPartitionLevelBelow ==
    \A l \in 1..MaxLevel :
        DOMAIN db[l] # {} =>
          LET children(k) == Range(RangeFrom(db[l - 1], k, db[l][k].size))
          IN  /\ UNION {children(k) : k \in DOMAIN db[l]} = DOMAIN db[l - 1]
              /\ SumFunction([k \in DOMAIN db[l] |-> db[l][k].size])
                   = Cardinality(DOMAIN db[l - 1])
              /\ \A k \in DOMAIN db[l] :
                   /\ k \in children(k)
                   /\ Cardinality(children(k)) = db[l][k].size
                   /\ db[l][k].docids = UNION {db[l - 1][c].docids : c \in children(k)}

Bounds == {Included(v) : v \in Values} \cup {Excluded(v) : v \in Values}
                \cup {Unbounded}

(* The search between two bounds, which takes whole groups without looking *)
(* below them, finds exactly the documents with a value between the two.   *)
RangeSearchExact ==
    \A left, right \in Bounds :
        find_docids_of_facet_within_bounds(db, left, right)
          = {d \in Docs : \E v \in values[d] : AboveLeft(left, v) /\ BelowRight(right, v)}

(* What a sort promises: every candidate once, with its first value in the *)
(* order of the sort.                                                      *)
SortedBy(s, candidates, best(_)) ==
    /\ \A i, j \in DOMAIN s : i # j => s[i][1] \cap s[j][1] = {}
    /\ UNION {s[i][1] : i \in DOMAIN s} = {d \in candidates : values[d] # {}}
    /\ \A i \in DOMAIN s : \A d \in s[i][1] : s[i][2] = best(values[d])

(* The ascending and descending iterators return every candidate that has  *)
(* a value exactly once, under its smallest, its greatest value, in order. *)
SortExact ==
    \A candidates \in SUBSET Docs :
        LET asc  == ascending_facet_sort(db, candidates)
            desc == descending_facet_sort(db, candidates)
        IN  /\ SortedBy(asc, candidates, Min)
            /\ SortedBy(desc, candidates, Max)
            /\ \A i \in 1..(Len(asc) - 1) : asc[i][2] < asc[i + 1][2]
            /\ \A i \in 1..(Len(desc) - 1) : desc[i][2] > desc[i + 1][2]

(* The number of candidates of each value that has one.                    *)
Distribution(candidates) ==
    {<<v, Cardinality({d \in candidates : v \in values[d]})>> :
       v \in UNION {values[d] : d \in candidates}}

(* Both iterations over the distribution call back once for each value     *)
(* that a candidate holds, with its exact count; the first in the order of *)
(* the values, the second by decreasing count, so that cutting either one  *)
(* short (maxValuesPerFacet) keeps the first values of its order.          *)
DistributionExact ==
    \A candidates \in SUBSET Docs :
        LET lex   == lexicographically_iterate_over_facet_distribution(db, candidates)
            count == count_iterate_over_facet_distribution(db, candidates)
        IN  /\ Range(lex) = Distribution(candidates)
            /\ \A i \in 1..(Len(lex) - 1) : lex[i][1] < lex[i + 1][1]
            /\ Range(count) = Distribution(candidates)
            /\ Len(count) = Cardinality(Range(count))
            /\ \A i \in 1..(Len(count) - 1) : count[i][2] >= count[i + 1][2]

(* The documents in any order.                                             *)
Orders(docids) == {s \in [1..Cardinality(docids) -> docids] : IsInjective(s)}

(* A field without values, and the field as numbers or as strings.         *)
NoField == Field(EmptyFacets, [d \in Docs |-> {}])
ThisField == Field(db, values)

(* The queries on the values: none, a word that admits no typo, and automata*)
(* that accept some of the values.                                         *)
FacetQueries ==
    {[kind |-> "none", matched |-> Values], [kind |-> "exact word", matched |-> {Min(Values)}],
     [kind |-> "automaton", matched |-> {v \in Values : v > 2}],
     [kind |-> "automaton", matched |-> Values \ {3, 5}]}

(* The facets shown with a search: as long as a field has fewer values     *)
(* than the limit, all of them are there with their exact counts, whether  *)
(* they were counted from the documents, in any order of their ids, or     *)
(* from the levels; beyond the limit a count is never too high, strings    *)
(* never exceed the limit, and the levels keep the first ones of the order.*)
(* A search among the values returns the first ones that match and that a  *)
(* candidate has, although the FST still holds values that are gone.       *)
FacetsShownExact ==
    \A candidates \in SUBSET Docs :
        LET truth == Distribution(candidates)
            held == {e[1] : e \in truth}
            sound(s, max) ==
                /\ \A i \in DOMAIN s : \E e \in truth : s[i][1] = e[1] /\ s[i][2] <= e[2]
                /\ \A i, j \in DOMAIN s : s[i][1] = s[j][1] => i = j
                /\ Cardinality(truth) < max => Range(s) = truth
            limited(s, max) == sound(s, max) /\ Len(s) <= max
            fromDocuments(docids, max) ==
                /\ limited(facet_values(NoField, ThisField, "lexicographic", docids, TRUE, max), max)
                /\ sound(facet_values(ThisField, NoField, "lexicographic", docids, TRUE, max), max)
            fromLevels(s, max) == limited(s, max) /\ Range(s) \subseteq truth
            some == CHOOSE s \in Orders(candidates) : TRUE
        IN  /\ \A docids \in Orders(candidates) : \A max \in 1..2 : fromDocuments(docids, max)
            /\ \A order_by \in {"lexicographic", "count"} : \A max \in 2..3 :
                 fromLevels(facet_values(NoField, ThisField, order_by, some, FALSE, max), max)
            /\ compute_stats(ThisField, candidates)
                 = IF held = {} THEN {} ELSE {<<Min(held), Max(held)>>}
            /\ \A query \in FacetQueries : \A max \in 1..2 :
                 LET hits == SearchForFacetValues(db, fst, query, candidates, max)
                     matched == {e \in truth : e[1] \in query.matched}
                 IN  /\ Len(hits) = Min({max, Cardinality(matched)})
                     /\ Range(hits) \subseteq matched
                     /\ \A e \in matched \ Range(hits) : \A i \in DOMAIN hits : hits[i][1] < e[1]

(* The FST never misses a value: searching for facet values with a query   *)
(* reads the values from it.  It may hold values that are gone, which the  *)
(* search then skips.                                                      *)
FstCoversValues == DOMAIN db[0] \subseteq fst

(* The facet databases of a field are sound after any mixture of bulk and  *)
(* incremental updates and deletions: level 0 is what the documents say,   *)
(* every level groups the one below, the FST misses no value.              *)
LevelsSound == TypeOK /\ Level0IsTheDocuments /\ GroupsPartitionLevelBelow /\ FstCoversValues

(* What is read of the facets is what the documents hold: the search       *)
(* between bounds, and the iterations over the levels, sorts and           *)
(* distributions alike, which visit every candidate under the right value, *)
(* in order and once.                                                      *)
FacetSearchExact == RangeSearchExact /\ SortExact /\ DistributionExact

(* Document ids are only compared for equality.                            *)
Symmetry == Permutations(Docs)
====
