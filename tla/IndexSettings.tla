----------------------------- MODULE IndexSettings ----------------------------
(***************************************************************************)
(* The settings of one index: from the body of a route                     *)
(* (meilisearch-types/src/settings.rs) through the builder                 *)
(* (milli/src/update/settings.rs) to the keys of the main database         *)
(* (milli/src/index.rs), the reindexing they cause, and back when they are *)
(* read, dumped and restored.  A field name is its sequence of segments, a *)
(* phrase its sequence of words; a document is known by its fields and by  *)
(* what the indexer extracted from it.                                     *)
(***************************************************************************)
EXTENDS Integers, Sequences, FiniteSets, SequencesExt, ClientRequest

CONSTANTS
    Updates,          \* the bodies clients send, as settings
    PrimaryKeys,      \* the primary keys an index update may ask for
    DocumentNames,    \* document |-> the names its addition brings, in order
    DocumentFields,   \* document |-> the names of its flattened values
    Lemma, Decomposed,\* word |-> its lossy, its unlossy normalization
    Rank,             \* word |-> its place in the order of strings
    MaxFieldIds,      \* how many ids a fields_ids_map has, 2^16 in the code
    MaxUpdates        \* how many updates are sent

VARIABLES
    main,       \* the main database: key |-> None or Some value
    fields_ids, \* fields_ids_map: the names in the order of their ids
    indexed,    \* the documents |-> what is extracted from them
    updates     \* how many updates were processed

settingsVars == <<main, fields_ids, indexed, updates>>

None == <<>>
Some(v) == <<v>>
OrElse(option, default) == IF option = None THEN default ELSE option[1]

\* Setting.
NotSet == <<"notset">>
Reset == <<"reset">>
Set(v) == <<"set", v>>
IsSet(s) == s[1] = "set"

or_reset(s, v) == IF s = Reset THEN Set(v) ELSE s

Wildcard == <<"*">>

DEFAULT_MIN_WORD_LEN_ONE_TYPO == 5
DEFAULT_MIN_WORD_LEN_TWO_TYPOS == 9
DEFAULT_VALUES_PER_FACET == 100
DEFAULT_PAGINATION_MAX_TOTAL_HITS == 1000
DefaultCriteria == <<<<"words">>, <<"typo">>, <<"proximity">>, <<"attribute">>, <<"sort">>, <<"exactness">>>>

\* The settings of a body: those of TopKeys, typo with TypoKeys below (min_sizes with one
\* and two below), faceting with FacetingKeys.
PlainKeys == {"displayed", "searchable", "filterable", "sortable", "criteria", "stop_words",
              "synonyms", "distinct"}
TopKeys == PlainKeys \cup {"typo", "faceting", "pagination"}

\* Settings of which only some keys are mentioned.
Body(given) == [k \in TopKeys |-> IF k \in DOMAIN given THEN given[k] ELSE NotSet]
Below(keys, given) == Set([k \in keys |-> IF k \in DOMAIN given THEN given[k] ELSE NotSet])
TypoKeys == {"authorize_typos", "min_sizes", "exact_words", "exact_attributes"}
FacetingKeys == {"max_values", "sort_facets"}

cleared == [k \in TopKeys |-> Reset]

\* Mutant: the wildcard is taken for a name.
KeepsWildcard(settings) == settings

\* Settings::check: a wildcard means every field.
check(settings) ==
    LET wild(s) == IsSet(s) /\ \E k \in 1..Len(s[2]) : s[2][k] = Wildcard
    IN  [k \in TopKeys |-> IF k \in {"displayed", "searchable"} /\ wild(settings[k]) THEN Reset
                           ELSE settings[k]]

-------------------------------------------------------------------------------
\* update::Settings, the builder.
BuilderKeys == PlainKeys \cup {"authorize_typos", "one_typo", "two_typos", "exact_words",
                 "exact_attributes", "max_values", "sort_facets", "max_hits", "primary_key"}

NewBuilder == [k \in BuilderKeys |-> NotSet]

\* A setting below another: resetting the upper one resets it.
Sub(outer, key) == IF IsSet(outer) THEN outer[2][key] ELSE outer

\* set_stop_words and set_synonyms: setting nothing is resetting.
OrEmpty(s, empty) == IF IsSet(s) /\ s[2] = empty THEN Reset ELSE s

\* apply_settings_to_builder.
apply_settings_to_builder(settings, builder) ==
    LET typo == settings["typo"]
        sizes == Sub(typo, "min_sizes")
        said(k) ==
          CASE k = "stop_words" -> OrEmpty(settings[k], {})
            [] k = "synonyms" -> OrEmpty(settings[k], <<>>)
            [] k \in PlainKeys \ {"stop_words", "synonyms"} -> settings[k]
            [] k = "one_typo" -> Sub(sizes, "one")
            [] k = "two_typos" -> Sub(sizes, "two")
            [] k \in TypoKeys -> Sub(typo, k)
            [] k \in FacetingKeys -> Sub(settings["faceting"], k)
            [] k = "max_hits" -> Sub(settings["pagination"], k)
            [] k = "primary_key" -> NotSet
    IN  [k \in BuilderKeys |-> IF said(k) = NotSet THEN builder[k] ELSE said(k)]

-------------------------------------------------------------------------------
\* The keys of the main database that hold settings, or are computed from them.
MainKeys == BuilderKeys \cup {"real_searchable", "faceted"}

\* is_faceted_by.
is_faceted_by(field, facet) == Len(facet) <= Len(field) /\ SubSeq(field, 1, Len(facet)) = facet

criteria(m) == OrElse(m["criteria"], DefaultCriteria)
min_word_len_one_typo(m) == OrElse(m["one_typo"], DEFAULT_MIN_WORD_LEN_ONE_TYPO)
min_word_len_two_typos(m) == OrElse(m["two_typos"], DEFAULT_MIN_WORD_LEN_TWO_TYPOS)
stop_words(m) == OrElse(m["stop_words"], {})

sort_facet_values_by(m) ==
    LET said == OrElse(m["sort_facets"], <<>>)
    IN  [n \in DOMAIN said \cup {Wildcard} |-> IF n \in DOMAIN said THEN said[n] ELSE "alpha"]

user_defined_faceted_fields(m) ==
    OrElse(m["filterable"], {}) \cup OrElse(m["sortable"], {})
    \cup {c[2] : c \in {c \in ToSet(criteria(m)) : c[1] \in {"asc", "desc"}}}
    \cup ToSet(m["distinct"])

compute_real_facets(m, fids) ==
    {n \in ToSet(fids) : \E f \in user_defined_faceted_fields(m) : is_faceted_by(n, f)}

\* put_all_searchable_fields_from_fields_ids_map: the names given, then the fields below
\* them, once for each name they are below of.
put_all_searchable_fields(m, names, fids) ==
    LET below(n) == LET parents == {k \in 1..Len(names) : is_faceted_by(n, names[k])}
                    IN  IF n \in ToSet(names) THEN <<>> ELSE [k \in 1..Cardinality(parents) |-> n]
        real == names \o FlattenSeq([k \in 1..Len(fids) |-> below(fids[k])])
    IN  [m EXCEPT !["searchable"] = Some(names), !["real_searchable"] = Some(real)]

\* The first occurrences.
Unique(s) == LET new(k) == \A j \in 1..k - 1 : s[j] # s[k]
             IN  LET kept == SelectSeq([k \in 1..Len(s) |-> k], new)
                 IN  [k \in 1..Len(kept) |-> s[kept[k]]]

\* FieldsIdsMap::insert, of several names.
InsertAll(fids, names) == Unique(fids \o names)

\* A put or delete that always happens.
Update(m, key, s) ==
    IF s = NotSet THEN m ELSE [m EXCEPT ![key] = IF IsSet(s) THEN Some(s[2]) ELSE None]

\* An update in progress: its index, whether something must be reindexed, and whether it
\* was refused.
Going(m, fids) == [ok |-> TRUE, main |-> m, fids |-> fids, reindex |-> FALSE]
Stopped == [ok |-> FALSE, main |-> <<>>, fids |-> <<>>, reindex |-> FALSE]

\* update_displayed to update_criteria, update_max_values_per_facet to
\* update_pagination_max_total_hits: no check.
UpdatePlain(m, b) ==
    LET displayed == IF IsSet(b["displayed"]) THEN Set(Unique(b["displayed"][2])) ELSE b["displayed"]
        plain == {"filterable", "sortable", "distinct", "criteria", "max_values", "sort_facets",
                  "max_hits"}
    IN  [k \in MainKeys |->
           CASE k = "displayed" -> Update(m, k, displayed)[k]
             [] k \in plain -> Update(m, k, b[k])[k]
             [] k = "authorize_typos" -> Update(m, k, or_reset(b[k], TRUE))[k]
             [] k = "exact_words" ->
                  IF IsSet(b[k]) THEN Some({Lemma[w] : w \in b[k][2]})
                  ELSE Update(m, k, or_reset(b[k], {}))[k]
             [] OTHER -> m[k]]

\* update_primary_key.
update_primary_key(u, b, empty) ==
    LET s == b["primary_key"]
    IN  CASE ~u.ok \/ s = NotSet -> u
          [] u.ok /\ s # NotSet /\ empty ->
               IF ~IsSet(s) THEN [u EXCEPT !.main["primary_key"] = None]
               ELSE LET fids == InsertAll(u.fids, <<s[2]>>)
                    IN  IF Len(fids) > MaxFieldIds THEN Stopped
                        ELSE [u EXCEPT !.main["primary_key"] = Some(s[2]), !.fids = fids]
          [] u.ok /\ s # NotSet /\ ~empty ->
               IF IsSet(s) /\ u.main["primary_key"] = Some(s[2]) THEN u ELSE Stopped

\* update_min_typo_word_len.
update_min_typo_word_len(u, b) ==
    LET one == or_reset(b["one_typo"], DEFAULT_MIN_WORD_LEN_ONE_TYPO)
        two == or_reset(b["two_typos"], DEFAULT_MIN_WORD_LEN_TWO_TYPOS)
        lenOne == IF IsSet(one) THEN one[2] ELSE min_word_len_one_typo(u.main)
        lenTwo == IF IsSet(two) THEN two[2] ELSE min_word_len_two_typos(u.main)
    IN  CASE ~u.ok \/ (one = NotSet /\ two = NotSet) -> u
          [] u.ok /\ (IsSet(one) \/ IsSet(two)) /\ lenOne > lenTwo -> Stopped
          [] OTHER -> [u EXCEPT !.main = Update(Update(@, "one_typo", one), "two_typos", two)]

\* update_stop_words: the words are handed to the fst in the order they had before their
\* normalization, which refuses them when it is no longer theirs.
update_stop_words(u, b) ==
    LET s == b["stop_words"]
        given == SetToSortSeq(s[2], LAMBDA v, w : Rank[v] < Rank[w])
        words == [k \in 1..Len(given) |-> Decomposed[given[k]]]
        sorted == \A k \in 1..Len(words) - 1 : Rank[words[k]] <= Rank[words[k + 1]]
        old == u.main["stop_words"]
    IN  CASE ~u.ok \/ s = NotSet -> u
          [] u.ok /\ s = Reset -> [u EXCEPT !.main["stop_words"] = None, !.reindex = @ \/ old # None]
          [] u.ok /\ IsSet(s) ->
               IF ~sorted THEN Stopped
               ELSE [u EXCEPT !.main["stop_words"] = Some(ToSet(words)),
                              !.reindex = @ \/ old # Some(ToSet(words))]

\* update_synonyms, normalized by the stop words just updated.
normalize(m, phrase) ==
    LET kept == SelectSeq(phrase, LAMBDA w : Lemma[w] \notin stop_words(m))
    IN  [k \in 1..Len(kept) |-> Lemma[kept[k]]]

update_synonyms(u, b) ==
    LET s == b["synonyms"]
        keys == {normalize(u.main, p) : p \in DOMAIN s[2]}
        new == [q \in keys |-> {normalize(u.main, p) :
                                  p \in UNION {s[2][r] : r \in {r \in DOMAIN s[2] : normalize(u.main, r) = q}}}]
        old == u.main["synonyms"]
    IN  CASE ~u.ok \/ s = NotSet -> u
          [] u.ok /\ s = Reset -> [u EXCEPT !.main["synonyms"] = None, !.reindex = @ \/ old # None]
          [] u.ok /\ IsSet(s) ->
               IF new = OrElse(old, <<>>) THEN u
               ELSE [u EXCEPT !.main["synonyms"] = Some(new), !.reindex = TRUE]

\* update_searchable: the names given take the first field ids, the other fields keep their
\* order after them.
update_searchable(u, b) ==
    LET s == b["searchable"]
        old == u.main["real_searchable"]
        fids == InsertAll(Unique(s[2]), u.fids)
    IN  CASE ~u.ok \/ s = NotSet -> u
          [] u.ok /\ s = Reset ->
               [u EXCEPT !.main["searchable"] = None, !.main["real_searchable"] = None,
                         !.reindex = @ \/ old # None \/ u.main["searchable"] # None]
          [] u.ok /\ IsSet(s) ->
               IF old = Some(s[2]) THEN u
               ELSE IF Len(fids) > MaxFieldIds THEN Stopped
               ELSE [u EXCEPT !.main = put_all_searchable_fields(@, Unique(s[2]), fids),
                              !.fids = fids, !.reindex = TRUE]

\* Mutant: exact attributes are only set, nothing is reindexed.
ExactWithoutReindex(u, b) ==
    IF u.ok THEN [u EXCEPT !.main = Update(@, "exact_attributes", b["exact_attributes"])] ELSE u

update_exact_attributes(u, b) ==
    LET s == b["exact_attributes"]
        old == u.main["exact_attributes"]
    IN  CASE ~u.ok \/ s = NotSet -> u
          [] u.ok /\ s = Reset -> [u EXCEPT !.main["exact_attributes"] = None, !.reindex = @ \/ old # None]
          [] u.ok /\ IsSet(s) ->
               IF s[2] = OrElse(old, {}) THEN u
               ELSE [u EXCEPT !.main["exact_attributes"] = Some(s[2]), !.reindex = TRUE]

\* execute: every update in its order; a refusal aborts the whole.
execute(m, fids, b, empty) ==
    LET plain == UpdatePlain(m, b)
        checked == update_min_typo_word_len(update_primary_key(Going(plain, fids), b, empty), b)
        faceted == [checked EXCEPT !.reindex = user_defined_faceted_fields(m)
                                                 # user_defined_faceted_fields(plain)]
    IN  update_exact_attributes(update_searchable(update_synonyms(update_stop_words(faceted, b), b), b), b)

-------------------------------------------------------------------------------
FieldId(fids, name) == CHOOSE k \in 1..Len(fids) : fids[k] = name

\* What indexing a document writes: its fields by id, those that are searched and those
\* among them without typos, its facets, the words left out.
Extract(m, fids, d) ==
    [content |-> {<<FieldId(fids, n), n>> : n \in DocumentFields[d]},
     words |-> {n \in DocumentFields[d] : m["real_searchable"] = None
                                         \/ n \in ToSet(m["real_searchable"][1])},
     exact |-> DocumentFields[d] \cap OrElse(m["exact_attributes"], {}),
     facets |-> DocumentFields[d] \cap OrElse(m["faceted"], {}),
     stops |-> stop_words(m)]

\* Settings::execute and reindex.  An index without document is left as it is.
Process(builder, sent) ==
    /\ updates + sent <= MaxUpdates
    /\ updates' = updates + sent
    /\ \E u \in {execute(main, fields_ids, builder, DOMAIN indexed = {})} :
         \/ ~u.ok /\ UNCHANGED <<main, fields_ids, indexed>>
         \/ /\ u.ok
            /\ main' = IF u.reindex /\ DOMAIN indexed # {}
                       THEN [u.main EXCEPT !["faceted"] = Some(compute_real_facets(u.main, u.fids))]
                       ELSE u.main
            /\ fields_ids' = u.fids
            /\ indexed' = IF u.reindex THEN [d \in DOMAIN indexed |-> Extract(main', u.fids, d)]
                          ELSE indexed

\* The settings updates of a batch fill one builder, which is executed once.
RECURSIVE MergeBatch(_, _)
\* Mutant: the last update of the batch starts from a builder of its own.
OnlyTheLast(batch, builder) == apply_settings_to_builder(check(Last(batch)), builder)

MergeBatch(batch, builder) ==
    IF batch = <<>> THEN builder
    ELSE MergeBatch(Tail(batch), apply_settings_to_builder(check(Head(batch)), builder))

UpdateSettings ==
    \E n \in 1..2 : \E batch \in [1..n -> Updates] : Process(MergeBatch(batch, NewBuilder), n)

\* An index update: the builder only gets a primary key.
UpdatePrimaryKey == \E pk \in PrimaryKeys : Process([NewBuilder EXCEPT !["primary_key"] = Set(pk)], 1)

\* A document addition: the fields are numbered, the facets and searched fields recomputed.
AddDocument(d) ==
    LET fids == InsertAll(fields_ids, DocumentNames[d])
        keyed == IF main["primary_key"] # None THEN main
                 ELSE [main EXCEPT !["primary_key"] = Some(DocumentNames[d][1])]
        faceted == [keyed EXCEPT !["faceted"] = Some(compute_real_facets(keyed, fids))]
        m == IF main["searchable"] = None THEN faceted
             ELSE put_all_searchable_fields(faceted, main["searchable"][1], fids)
    IN  /\ d \notin DOMAIN indexed
        /\ OrElse(main["primary_key"], DocumentNames[d][1]) \in DocumentFields[d]
        /\ Len(fids) <= MaxFieldIds
        /\ main' = m
        /\ fields_ids' = fids
        /\ indexed' = [x \in DOMAIN indexed \cup {d} |-> IF x = d THEN Extract(m, fids, d) ELSE indexed[x]]
        /\ UNCHANGED updates

\* Every document is deleted; the settings and the fields_ids_map stay.
ClearDocuments ==
    /\ DOMAIN indexed # {}
    /\ indexed' = <<>>
    /\ UNCHANGED <<main, fields_ids, updates>>

FreshMain == [k \in MainKeys |-> None]

SettingsInit ==
    /\ main = FreshMain
    /\ fields_ids = <<>>
    /\ indexed = <<>>
    /\ updates = 0

SettingsNext ==
    /\ request.kind = "settings"
    /\ \/ UpdateSettings
       \/ UpdatePrimaryKey
       \/ \E d \in DOMAIN DocumentNames : AddDocument(d)
       \/ ClearDocuments
    /\ UNCHANGED request

-------------------------------------------------------------------------------
\* settings: what the routes answer and a dump holds.
OrReset(option) == IF option = None THEN Reset ELSE Set(option[1])

settings(m) ==
    [k \in TopKeys |->
       CASE k \in {"displayed", "searchable", "distinct"} -> OrReset(m[k])
         [] k \in {"filterable", "sortable", "stop_words"} -> Set(OrElse(m[k], {}))
         [] k = "synonyms" -> Set(OrElse(m[k], <<>>))
         [] k = "criteria" -> Set(criteria(m))
         [] k = "typo" -> Set([authorize_typos |-> Set(OrElse(m["authorize_typos"], TRUE)),
                               min_sizes |-> Set([one |-> Set(min_word_len_one_typo(m)),
                                                  two |-> Set(min_word_len_two_typos(m))]),
                               exact_words |-> Set(OrElse(m["exact_words"], {})),
                               exact_attributes |-> Set(OrElse(m["exact_attributes"], {}))])
         [] k = "faceting" -> Set([max_values |-> Set(OrElse(m["max_values"], DEFAULT_VALUES_PER_FACET)),
                                   sort_facets |-> Set(sort_facet_values_by(m))])
         [] k = "pagination" -> Set([max_hits |-> Set(OrElse(m["max_hits"], DEFAULT_PAGINATION_MAX_TOTAL_HITS))])]

\* serialize_with_wildcard: in JSON, every field is a wildcard.
serialize(s) ==
    [k \in TopKeys |-> IF k \in {"displayed", "searchable"} /\ s[k] = Reset THEN Set(<<Wildcard>>) ELSE s[k]]

-------------------------------------------------------------------------------
(***************************************************************************)
(* Properties.                                                             *)
(***************************************************************************)

Named(names, n) == \E f \in names : is_faceted_by(n, f)

\* Every document is indexed the way the settings of the moment say, whatever updates and
\* additions came before: no change of settings that matters skips the reindexing, and
\* renumbering the fields never leaves a document with its old numbers
\* (settings.rs:740-790).  A field is searched, or faceted, when it or a parent is named.
IndexedAsSettings ==
    request.kind = "settings" => \A d \in DOMAIN indexed :
        indexed[d] =
            [content |-> {<<FieldId(fields_ids, n), n>> : n \in DocumentFields[d]},
             words |-> {n \in DocumentFields[d] : main["searchable"] = None
                                                 \/ Named(ToSet(main["searchable"][1]), n)},
             exact |-> DocumentFields[d] \cap OrElse(main["exact_attributes"], {}),
             facets |-> {n \in DocumentFields[d] : Named(user_defined_faceted_fields(main), n)},
             stops |-> stop_words(main)]

Settled(s) ==
    \A p \in DOMAIN s["synonyms"][2] : \A q \in {p} \cup s["synonyms"][2][p] :
        ToSet(q) \cap s["stop_words"][2] = {}

\* Settings read from an index, written to a dump and applied to a new index are accepted
\* and read the same (meilisearch-types/src/settings.rs:396-500): defaults, wildcards, typo
\* sizes and normalized words survive the trip, except synonyms that hold words which
\* became stop words later.
RestoreExact ==
    request.kind = "settings" =>
    \A read \in {settings(main)} :
    \A u \in {execute(FreshMain, <<>>, apply_settings_to_builder(check(serialize(read)), NewBuilder), TRUE)} :
        u.ok /\ \A again \in {settings(u.main)} :
                  \A k \in TopKeys : (k = "synonyms" => Settled(read)) => again[k] = read[k]

Searched(m) ==
    {n \in UNION {DocumentFields[d] : d \in DOMAIN DocumentFields} :
        m["searchable"] = None \/ Named(ToSet(m["searchable"][1]), n)}

\* Settings updates batched together do what they do one after the other, when each is
\* accepted on its own (batch.rs:1285-1320), but for synonyms read with the stop words of
\* the whole batch.  Names given along with their parent make no difference:
\* searchable fields are compared by what they let search.
BatchSame ==
    request.kind = "settings" /\ updates + 2 <= MaxUpdates =>
        \A a, b \in Updates :
          LET one(m, fids, s) == execute(m, fids, MergeBatch(<<s>>, NewBuilder), DOMAIN indexed = {})
          IN  \A first \in {one(main, fields_ids, a)} : first.ok =>
              \A second \in {one(first.main, first.fids, b)} : second.ok =>
              \A both \in {execute(main, fields_ids, MergeBatch(<<a, b>>, NewBuilder), DOMAIN indexed = {})} :
                  /\ both.ok
                  /\ Searched(both.main) = Searched(second.main)
                  /\ \A k \in TopKeys \ {"searchable"} :
                       (k = "synonyms" => a["synonyms"] = NotSet \/ b["stop_words"] = NotSet) =>
                          settings(both.main)[k] = settings(second.main)[k]

\* Settings mean the same however they came to be: documents are indexed by them, a dump
\* restores them, and a batch of updates does what its updates do (settings.rs, batch.rs).
SettingsSound == IndexedAsSettings /\ RestoreExact /\ BatchSame
===============================================================================
