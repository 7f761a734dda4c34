---- MODULE SearchIndex ----
(***************************************************************************)
(* What a search reads of an index: the SearchContext of                   *)
(* milli/src/search/new and the lookups of its db_cache.rs.  The cache     *)
(* keeps what one read transaction returned, so that a lookup is the       *)
(* content of the database; an entry that is absent is an empty set of     *)
(* documents.  The prefix databases hold what the run of DocumentIndex     *)
(* shows them to hold: the postings of the words that start with a prefix. *)
(*                                                                         *)
(* A context is a record: post, the relations of WordPostings; prefixes,   *)
(* the prefixes that have postings of their own; fields, the names by id;  *)
(* settings; documents, the ids; restricted, <<>> or the one set of field  *)
(* ids the search is restricted to; numbers, strings and geo, the facet    *)
(* values of the documents and their distance to the point of the search.  *)
(***************************************************************************)
EXTENDS WordPostings, SequencesExt

CONSTANTS MAX_PREFIX_COUNT, MAX_ONE_TYPO_COUNT, MAX_TWO_TYPOS_COUNT,
          MAX_SYNONYM_PHRASE_COUNT, MAX_SYNONYM_WORD_COUNT

At(ctx, kind, key) == {p[2] : p \in {q \in ctx.post[kind] : q[1] = key}}

(* A word of a document and whether typos were needed to reach it.         *)
Original(w) == [word |-> w, derived |-> FALSE]
Derived(w)  == [word |-> w, derived |-> TRUE]

WordsFst(ctx) == {p[1][1] : p \in ctx.post["word_docids"] \cup ctx.post["exact_word_docids"]}
WordsWith(ctx, prefix) == {w \in WordsFst(ctx) : StartsWith(w, prefix)}

get_db_word_fid_docids(ctx, w, fid) ==
    IF ctx.restricted # <<>> /\ fid \notin ctx.restricted[1] THEN {}
    ELSE At(ctx, "word_fid_docids", <<w, fid>>)

get_db_word_prefix_fid_docids(ctx, prefix, fid) ==
    IF prefix \notin ctx.prefixes THEN {}
    ELSE UNION {get_db_word_fid_docids(ctx, w, fid) : w \in WordsWith(ctx, prefix)}

get_db_word_docids(ctx, w) ==
    IF ctx.restricted = <<>> THEN At(ctx, "word_docids", <<w, 0>>)
    ELSE UNION {get_db_word_fid_docids(ctx, w, fid) : fid \in ctx.restricted[1]}

(* The exact attributes are not subject to the restriction.                *)
get_db_exact_word_docids(ctx, w) == At(ctx, "exact_word_docids", <<w, 0>>)

word_docids(ctx, word) ==
    get_db_word_docids(ctx, word.word)
        \cup (IF word.derived THEN {} ELSE get_db_exact_word_docids(ctx, word.word))

get_db_word_prefix_docids(ctx, prefix) ==
    IF prefix \notin ctx.prefixes THEN {}
    ELSE IF ctx.restricted = <<>>
         THEN UNION {At(ctx, "word_docids", <<w, 0>>) : w \in WordsWith(ctx, prefix)}
         ELSE UNION {get_db_word_prefix_fid_docids(ctx, prefix, fid) : fid \in ctx.restricted[1]}

get_db_exact_word_prefix_docids(ctx, prefix) ==
    IF prefix \notin ctx.prefixes THEN {}
    ELSE UNION {get_db_exact_word_docids(ctx, w) : w \in WordsWith(ctx, prefix)}

word_prefix_docids(ctx, prefix) ==
    get_db_word_prefix_docids(ctx, prefix.word)
        \cup (IF prefix.derived THEN {} ELSE get_db_exact_word_prefix_docids(ctx, prefix.word))

get_db_word_pair_proximity_docids(ctx, w1, w2, proximity) ==
    At(ctx, "word_pair_proximity_docids", <<w1, w2, proximity>>)

(* The pairs with a prefix are kept for short prefixes and small           *)
(* proximities only: up to 4 for a word and a prefix, 1 and 2 for a prefix *)
(* and a word.                                                             *)
PairPrefix(ctx, prefix) == prefix \in ctx.prefixes /\ Len(prefix) <= 2

get_db_word_prefix_pair_proximity_docids(ctx, w, prefix, proximity) ==
    IF ~PairPrefix(ctx, prefix) \/ proximity > 4 THEN {}
    ELSE UNION {get_db_word_pair_proximity_docids(ctx, w, v, proximity) : v \in WordsWith(ctx, prefix)}

get_db_prefix_word_pair_proximity_docids(ctx, prefix, w, proximity) ==
    IF ~PairPrefix(ctx, prefix) \/ proximity > 2 THEN {}
    ELSE UNION {get_db_word_pair_proximity_docids(ctx, v, w, proximity) : v \in WordsWith(ctx, prefix)}

get_db_word_fids(ctx, w) ==
    {p[1][2] : p \in {q \in ctx.post["word_fid_docids"] : q[1][1] = w}}
get_db_word_prefix_fids(ctx, prefix) ==
    IF prefix \notin ctx.prefixes THEN {}
    ELSE UNION {get_db_word_fids(ctx, w) : w \in WordsWith(ctx, prefix)}

get_db_word_position_docids(ctx, w, position) ==
    At(ctx, "word_position_docids", <<w, position>>)
get_db_word_positions(ctx, w) ==
    {p[1][2] : p \in {q \in ctx.post["word_position_docids"] : q[1][1] = w}}
get_db_word_prefix_position_docids(ctx, prefix, position) ==
    IF prefix \notin ctx.prefixes THEN {}
    ELSE UNION {get_db_word_position_docids(ctx, w, position) : w \in WordsWith(ctx, prefix)}
get_db_word_prefix_positions(ctx, prefix) ==
    IF prefix \notin ctx.prefixes THEN {}
    ELSE UNION {get_db_word_positions(ctx, w) : w \in WordsWith(ctx, prefix)}

SearchableFids(ctx) == SearchableIds(ctx.settings, ctx.fields)

(* SearchContext::searchable_attributes: the ids of the attributes the     *)
(* search is restricted to; an attribute that is unknown or not searchable *)
(* refuses the search.                                                     *)
AttributesAccepted(ctx, attributes) ==
    \A a \in attributes : \E fid \in SearchableFids(ctx) : ctx.fields[fid] = a
searchable_attributes(ctx, attributes) ==
    [ctx EXCEPT !.restricted = <<{fid \in 1..Len(ctx.fields) : ctx.fields[fid] \in attributes}>>]
====
