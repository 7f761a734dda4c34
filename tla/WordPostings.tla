---- MODULE WordPostings ----
(***************************************************************************)
(* What the extractors of milli/src/update/index_documents/extract take    *)
(* out of one document: the keys under which its id is filed in each of    *)
(* the posting databases of an index.  A word is a tuple of characters     *)
(* (small numbers); the value of a field is the sequence of its words, in  *)
(* which the empty tuple stands for a hard separator (the end of a         *)
(* sentence).  A document is a function from field ids to values.          *)
(***************************************************************************)
EXTENDS Integers, FiniteSets, Sequences

CONSTANTS RedetectedWords,  \* external: words whose language is at first mistaken
          MaxWordCount,     \* 30: drain_document_fid_wordcount_into_sorter
          MAX_POSITION_PER_ATTRIBUTE,  \* 65536: the positions of a field
          MAX_WORD_LENGTH   \* 250: the longest word that can be a key

ASSUME WordCountBound == MaxWordCount \in Nat

MAX_DISTANCE == 8
Hard == <<>>

StartsWith(word, prefix) ==
    Len(prefix) <= Len(word) /\ SubSeq(word, 1, Len(prefix)) = prefix

(* process_tokens: a word comes 1 after the one before it, 8 after a hard  *)
(* separator; the separators that begin the value count for nothing.       *)
process_tokens(value) ==
    LET offset[i \in 1..Len(value)] ==
            IF \A j \in 1..(i - 1) : value[j] = Hard THEN 0
            ELSE offset[i - 1] + (CASE value[i] = Hard -> 0
                                    [] value[i - 1] = Hard -> 8
                                    [] OTHER -> 1)
    IN  {<<offset[i], value[i]>> : i \in {j \in 1..Len(value) : value[j] # Hard}}

(* The fields whose words are indexed, by id: all of them when no list is  *)
(* set (searchable_fields_ids).                                            *)
SearchableIds(settings, names) ==
    {fid \in 1..Len(names) :
        settings.searchable = <<>>
        \/ \E i \in 1..Len(settings.searchable) : settings.searchable[i] = names[fid]}

IdsOf(fields, names) == {fid \in 1..Len(names) : names[fid] \in fields}

(* extract_tokens_from_document: the words of the searchable fields, up to *)
(* the last position of a field.  Stop words keep their position but are   *)
(* not words.                                                              *)
Tokens(obkv, settings, names) ==
    UNION {{[word |-> t[2], fid |-> fid, pos |-> t[1]] :
                t \in {u \in process_tokens(obkv[fid]) :
                        u[2] \notin settings.stop_words /\ u[1] < MAX_POSITION_PER_ATTRIBUTE}} :
           fid \in DOMAIN obkv \cap SearchableIds(settings, names)}

(* The words that are filed: one that is too long is only looked at to     *)
(* find its language.                                                      *)
Occurrences(obkv, settings, names) ==
    {t \in Tokens(obkv, settings, names) : Len(t.word) <= MAX_WORD_LENGTH}

(* extract_docid_word_positions: when the languages found look mistaken    *)
(* the document is read again, and its positions are added a second time   *)
(* to the same sorter.                                                     *)
Readings(obkv, settings, names) ==
    IF \E t \in Tokens(obkv, settings, names) : t.word \in RedetectedWords THEN 2 ELSE 1

(* extract_word_docids: the positions of a word are read in turn; one in   *)
(* an exact attribute goes to exact_word_docids unless the word is already *)
(* there, any other goes to word_docids.                                   *)
ExactWords(occurrences, exact) == {o.word : o \in {u \in occurrences : u.fid \in exact}}

TolerantWords(occurrences, exact, readings) ==
    {o.word : o \in {u \in occurrences :
        \/ u.fid \notin exact
        \/ readings * Cardinality({v \in occurrences : v.word = u.word /\ v.fid \in exact}) >= 2}}

bucketed_position(relative) ==
    IF relative < 16 THEN relative
    ELSE IF relative < 24 THEN 24
    ELSE CHOOSE p \in {2^i : i \in 5..16} : relative <= p /\ 2 * relative > p

index_proximity(lhs, rhs) ==
    LET distance == IF lhs <= rhs THEN rhs - lhs ELSE lhs - rhs + 1
    IN  IF distance < MAX_DISTANCE THEN distance ELSE MAX_DISTANCE

positions_proximity(left, right) ==
    IF left.fid # right.fid THEN MAX_DISTANCE ELSE index_proximity(left.pos, right.pos)

(* document_word_positions_into_sorter: the pairs of words that follow     *)
(* each other closely enough, each with its shortest proximity.  The heap  *)
(* holds one position of each word, so that a word meets the six other     *)
(* words that come first after it, and its own next occurrence: two words  *)
(* with six others between them are not a pair.                            *)
HeapWindow == 7
WordPairs(occurrences) ==
    LET between(p) == {o.word : o \in {u \in occurrences :
                          /\ u.fid = p[1].fid
                          /\ p[1].pos < u.pos /\ u.pos < p[2].pos}}
        close == {p \in occurrences \X occurrences :
                    /\ p[1].pos < p[2].pos
                    /\ positions_proximity(p[1], p[2]) < MAX_DISTANCE
                    /\ \/ p[1].word = p[2].word
                       \/ Cardinality(between(p) \ {p[1].word, p[2].word}) < HeapWindow - 1}
    IN  {<<p[1].word, p[2].word, positions_proximity(p[1], p[2])>> :
            p \in {q \in close : \A r \in close :
                    (r[1].word = q[1].word /\ r[2].word = q[2].word) =>
                        positions_proximity(q[1], q[2]) <= positions_proximity(r[1], r[2])}}

(* extract_fid_word_count_docids: the number of words of each field.       *)
WordCounts(occurrences, readings) ==
    {count \in {<<o.fid, readings * Cardinality({u \in occurrences : u.fid = o.fid})>> :
                  o \in occurrences} : count[2] <= MaxWordCount}

extract_word_position_docids(occurrences) ==
    {<<o.word, bucketed_position(o.pos)>> : o \in occurrences}

extract_word_fid_docids(occurrences) == {<<o.word, o.fid>> : o \in occurrences}

(* extract_fid_docid_facet_values: the faceted fields that are there, the  *)
(* ones that are empty, and the values of the others.                      *)
extract_fid_docid_facet_values(obkv, faceted) ==
    LET present == DOMAIN obkv \cap faceted
    IN  [exists   |-> present,
         is_empty |-> {fid \in present : obkv[fid] = <<>>},
         strings  |-> {<<fid, obkv[fid]>> : fid \in {f \in present : obkv[f] # <<>>}}]

(* The kinds of posting databases.                                         *)
WordKinds == {"word_docids", "exact_word_docids", "word_position_docids", "word_fid_docids"}
PostingKinds == WordKinds \cup
    {"word_pair_proximity_docids", "field_id_word_count_docids",
     "facet_id_exists_docids", "facet_id_is_empty_docids", "facet_id_string_docids"}

(* data_from_obkv_documents: the keys of a document in every database.     *)
(* The keys of the word databases are the word and an integer.             *)
Keys(obkv, settings, names) ==
    LET occurrences == Occurrences(obkv, settings, names)
        readings    == Readings(obkv, settings, names)
        exact       == IdsOf(settings.exact_attributes, names)
        facets      == extract_fid_docid_facet_values(obkv, IdsOf(settings.faceted, names))
    IN  [word_docids                |-> {<<w, 0>> : w \in TolerantWords(occurrences, exact, readings)},
         exact_word_docids          |-> {<<w, 0>> : w \in ExactWords(occurrences, exact)},
         word_position_docids       |-> extract_word_position_docids(occurrences),
         word_fid_docids            |-> extract_word_fid_docids(occurrences),
         word_pair_proximity_docids |-> WordPairs(occurrences),
         field_id_word_count_docids |-> WordCounts(occurrences, readings),
         facet_id_exists_docids     |-> facets.exists,
         facet_id_is_empty_docids   |-> facets.is_empty,
         facet_id_string_docids     |-> facets.strings]

(* The relations that file a set of documents in every database: pairs of  *)
(* a key and a document id.                                                *)
Postings(documents, settings, names) ==
    LET keys == [d \in DOMAIN documents |-> Keys(documents[d], settings, names)]
    IN  [kind \in PostingKinds |->
            UNION {{<<k, d>> : k \in keys[d][kind]} : d \in DOMAIN documents}]
====
