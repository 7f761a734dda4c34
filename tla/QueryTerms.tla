---- MODULE QueryTerms ----
(***************************************************************************)
(* The terms of a query (milli/src/search/new/query_term): the parsing of  *)
(* the tokens, the derivations of a word (prefixes, synonyms, typos, split *)
(* words), the subsets of them the ranking rules work on, and the          *)
(* documents they select (resolve_query_graph.rs).  A word is a tuple of   *)
(* characters; in a phrase the empty tuple stands for a stop word.         *)
(***************************************************************************)
EXTENDS SearchIndex, FiniteSetsExt

StopWord == <<>>

(* The words of a set in the order of the FST.                             *)
Before(v, w) ==
    \/ StartsWith(w, v) /\ v # w
    \/ \E i \in 1..Len(v) : /\ i <= Len(w) /\ v[i] < w[i]
                            /\ \A j \in 1..(i - 1) : v[j] = w[j]
First(words, n) == {w \in words : Cardinality({v \in words : Before(v, w)}) < n}

(* build_dfa: the edit distance of w to the prefixes of v, a transposition *)
(* counting for one; to v itself, or to the closest prefix of it.          *)
EditDistance(w, v) ==
    LET row(rows, i) ==   \* the distances of the first i characters of w to the prefixes of v
            LET above == rows[i]
                cell(left, j) ==
                    Append(left, Min({above[j + 1] + 1, left[j] + 1,
                                      above[j] + (IF w[i] = v[j] THEN 0 ELSE 1)}
                                 \cup (IF i > 1 /\ j > 1 /\ w[i] = v[j - 1] /\ w[i - 1] = v[j]
                                       THEN {rows[i - 1][j - 1] + 1} ELSE {})))
            IN  Append(rows, FoldLeft(cell, <<i>>, [j \in 1..Len(v) |-> j]))
    IN  Last(FoldLeft(row, <<[j \in 1..(Len(v) + 1) |-> j - 1]>>, [i \in 1..Len(w) |-> i]))

build_dfa(w, v, is_prefix) ==
    IF is_prefix THEN Min(Range(EditDistance(w, v))) ELSE Last(EditDistance(w, v))

number_of_typos_allowed(ctx, w) ==
    IF ~ctx.settings.authorize_typos \/ Len(w) < ctx.settings.min_one \/ w \in ctx.settings.exact_words
    THEN 0
    ELSE IF Len(w) < ctx.settings.min_two THEN 1 ELSE 2

(* The synonyms of a word: as many phrases as the limits allow, a phrase   *)
(* that would pass the limit of words being left out.                      *)
SynonymsOf(ctx, words) ==
    IF words \in DOMAIN ctx.settings.synonyms THEN ctx.settings.synonyms[words] ELSE <<>>
TakeSynonyms(phrases) ==
    LET limited == SubSeq(phrases, 1, Min({Len(phrases), MAX_SYNONYM_PHRASE_COUNT}))
    IN  FoldLeft(LAMBDA acc, p :
                    IF acc.count + Len(p) > MAX_SYNONYM_WORD_COUNT THEN acc
                    ELSE [count |-> acc.count + Len(p), kept |-> acc.kept \cup {p}],
                 [count |-> 0, kept |-> {}], limited).kept

(* A term.  use_prefix_db: the word has postings as a prefix.              *)
Term(original, max_typo, is_prefix) ==
    [original |-> original, ngram |-> <<>>, max |-> max_typo, is_prefix |-> is_prefix,
     phrase |-> <<>>, exact |-> {}, prefix_of |-> {}, synonyms |-> {}, use_prefix_db |-> FALSE,
     one_typo |-> {}, two_typos |-> {}, split_words |-> {}]

partially_initialized_term_from_word(ctx, w, max_typo, is_prefix, is_ngram) ==
    LET in_db == /\ is_prefix
                 /\ \/ get_db_word_prefix_docids([ctx EXCEPT !.restricted = <<>>], w) # {}
                    \/ ~is_ngram /\ get_db_exact_word_prefix_docids(ctx, w) # {}
    IN  IF Len(w) > MAX_WORD_LENGTH THEN Term(w, 0, FALSE)
        ELSE [Term(w, max_typo, is_prefix) EXCEPT
                !.exact = WordsFst(ctx) \cap {w},
                !.prefix_of = IF is_prefix /\ ~in_db
                              THEN First(WordsWith(ctx, w) \ {w}, MAX_PREFIX_COUNT) ELSE {},
                !.synonyms = TakeSynonyms(SynonymsOf(ctx, <<w>>)),
                !.use_prefix_db = in_db]

(* split_best_frequency: the split whose parts are the most often next to  *)
(* each other, the first one of those.                                     *)
split_best_frequency(ctx, w) ==
    LET freq(i) == Cardinality(get_db_word_pair_proximity_docids(
                                   ctx, SubSeq(w, 1, i), SubSeq(w, i + 1, Len(w)), 1))
        splits  == {i \in 1..(Len(w) - 1) : freq(i) > 0}
        best    == {i \in splits : \A j \in splits : freq(j) < freq(i) \/ (freq(j) = freq(i) /\ i <= j)}
    IN  {<<SubSeq(w, 1, i), SubSeq(w, i + 1, Len(w))>> : i \in best}

allows_split_words(term) == term.phrase = <<>>

(* initialize_one_typo_subterm, initialize_one_and_two_typo_subterm: with  *)
(* two typos allowed, one on the first letter counts for two.              *)
OneTypoWords(ctx, term) ==
    IF term.max = 0 THEN {}
    ELSE First({v \in WordsFst(ctx) : /\ v[1] = term.original[1]
                                      /\ build_dfa(term.original, v, term.is_prefix) = 1},
               MAX_ONE_TYPO_COUNT)

TwoTypoWords(ctx, term) ==
    IF term.max < 2 THEN {}
    ELSE First({v \in WordsFst(ctx) :
                    LET d == build_dfa(term.original, v, term.is_prefix)
                    IN  IF v[1] = term.original[1] THEN d = 2 ELSE d <= 1},
               MAX_TWO_TYPOS_COUNT)

SplitWords(ctx, term) ==
    IF ~allows_split_words(term) \/ Len(term.original) > MAX_WORD_LENGTH THEN {}
    ELSE LET found == split_best_frequency(ctx, term.original)
         IN  IF term.max <= 1 THEN found \ {term.ngram} ELSE found

(* The code computes the derivations when they are first asked for.        *)
WithTypos(ctx, term) ==
    [term EXCEPT !.one_typo = OneTypoWords(ctx, term), !.two_typos = TwoTypoWords(ctx, term),
                 !.split_words = SplitWords(ctx, term)]

(* make_ngram: the concatenation of consecutive words, if no one of them   *)
(* is a phrase.                                                            *)
NgramAllowed(terms) ==
    /\ \A i \in 1..Len(terms) : terms[i].term.phrase = <<>> /\ terms[i].term.ngram = <<>>
    /\ \A i \in 1..(Len(terms) - 1) : terms[i].positions[2] = terms[i + 1].positions[1] - 1
    /\ Len(FlattenSeq([i \in 1..Len(terms) |-> terms[i].term.original])) <= MAX_WORD_LENGTH

make_ngram(ctx, terms) ==
    LET words == [i \in 1..Len(terms) |-> terms[i].term.original]
        w     == FlattenSeq(words)
        typos == number_of_typos_allowed(ctx, w) - (Len(terms) - 1)
        term  == partially_initialized_term_from_word(ctx, w, IF typos < 0 THEN 0 ELSE typos,
                                                      Last(terms).term.is_prefix, TRUE)
    IN  [term |-> WithTypos(ctx, [term EXCEPT !.ngram = words,
                                              !.synonyms = @ \cup Range(SynonymsOf(ctx, words))]),
         positions |-> <<Head(terms).positions[1], Last(terms).positions[2]>>]

-----------------------------------------------------------------------------
(* NTypoTermSubset                                                         *)
All     == [kind |-> "All", words |-> {}, phrases |-> {}]
Nothing == [kind |-> "Nothing", words |-> {}, phrases |-> {}]
Subset(words, phrases) == [kind |-> "Subset", words |-> words, phrases |-> phrases]

IsEmpty(s) == s.kind = "Nothing" \/ (s.kind = "Subset" /\ s.words = {} /\ s.phrases = {})
ContainsWord(s, w)   == s.kind = "All" \/ w \in s.words
ContainsPhrase(s, p) == s.kind = "All" \/ p \in s.phrases
Keep(s, words)       == IF s.kind = "All" THEN words ELSE words \cap s.words
Intersect(s, t) ==
    CASE s.kind = "All" -> t
      [] t.kind = "All" -> s
      [] s.kind = "Nothing" \/ t.kind = "Nothing" -> Nothing
      [] OTHER -> Subset(s.words \cap t.words, s.phrases \cap t.phrases)

(* QueryTermSubset                                                         *)
full(term) == [original |-> term, zero |-> All, one |-> All, two |-> All, mandatory |-> FALSE]

intersect(s, t) == [s EXCEPT !.zero = Intersect(s.zero, t.zero), !.one = Intersect(s.one, t.one),
                             !.two = Intersect(s.two, t.two)]

NoExactTerm == <<>>
(* exact_term: the phrase, or the word as a phrase of one word.            *)
exact_term(s) ==
    LET t == s.original
    IN  CASE t.ngram # <<>>  -> NoExactTerm
          [] t.phrase # <<>> -> IF ContainsPhrase(s.zero, t.phrase) THEN t.phrase ELSE NoExactTerm
          [] t.exact # {} /\ t.phrase = <<>> /\ t.ngram = <<>> ->
                IF ContainsWord(s.zero, t.original) THEN <<t.original>> ELSE NoExactTerm
          [] OTHER -> NoExactTerm

use_prefix_db(s) ==
    s.original.use_prefix_db /\ ContainsWord(s.zero, s.original.original)

PrefixOf(s) == [word |-> s.original.original, derived |-> s.original.ngram # <<>>]

all_single_words_except_prefix_db(ctx, s) ==
    LET t == s.original
    IN  {[word |-> w, derived |-> t.ngram # <<>>] : w \in Keep(s.zero, t.exact \cup t.prefix_of)}
        \cup {Derived(w) : w \in Keep(s.one, t.one_typo)}
        \cup {Derived(w) : w \in Keep(s.two, t.two_typos)}

(* The phrase and the synonyms are there whatever is left of the subset.   *)
all_phrases(ctx, s) ==
    LET t == s.original
    IN  ({t.phrase} \ {<<>>}) \cup t.synonyms
        \cup (IF s.one.kind = "All" THEN t.split_words ELSE t.split_words \cap s.one.phrases)

original_phrase(s) ==
    IF s.original.phrase # <<>> /\ ContainsPhrase(s.zero, s.original.phrase)
    THEN s.original.phrase ELSE <<>>

max_typo_cost(s) ==
    LET t == s.original
    IN  CASE t.max = 0 -> IF allows_split_words(t) THEN 1 ELSE 0
          [] t.max = 1 -> IF IsEmpty(s.one) THEN 0 ELSE 1
          [] t.max = 2 -> IF ~IsEmpty(s.two) THEN 2 ELSE IF IsEmpty(s.one) THEN 0 ELSE 1

keep_only_exact_term(s) ==
    IF exact_term(s) = NoExactTerm THEN s
    ELSE [s EXCEPT !.zero = IF s.original.phrase # <<>> THEN Subset({}, {s.original.phrase})
                            ELSE Subset({s.original.original}, {}),
                   !.one = Nothing, !.two = Nothing]

-----------------------------------------------------------------------------
(* located_query_terms_from_tokens: a quoted part is a phrase, the last    *)
(* word of the query is a prefix, a hard separator ends a phrase and       *)
(* begins another.  The state of the parser: the terms, the position of    *)
(* the last word, whether a phrase is open and what it holds so far.       *)
NoPhrase == [open |-> FALSE, words |-> <<>>, start |-> 0, end |-> 0]
EmptyPhrase == [NoPhrase EXCEPT !.open = TRUE]
PhraseIsEmpty(phrase) == \A i \in 1..Len(phrase.words) : phrase.words[i] = StopWord

push_word(phrase, token, position) ==
    [phrase EXCEPT !.start = IF PhraseIsEmpty(phrase) THEN position ELSE @,
                   !.end = position,
                   !.words = Append(@, IF token.kind = "StopWord" THEN StopWord ELSE token.word)]

(* PhraseBuilder::build: a phrase of stop words alone is dropped.          *)
Closed(terms, phrase) ==
    IF ~phrase.open \/ PhraseIsEmpty(phrase) THEN terms
    ELSE Append(terms, [term |-> [Term(phrase.words, 0, FALSE) EXCEPT !.phrase = phrase.words],
                        positions |-> <<phrase.start, phrase.end>>])

ReadWord(ctx, st, token, last) ==
    LET position == st.position + 1
        located(is_prefix) ==
            [term |-> WithTypos(ctx, partially_initialized_term_from_word(
                          ctx, token.word, number_of_typos_allowed(ctx, token.word), is_prefix, FALSE)),
             positions |-> <<position, position>>]
    IN  [st EXCEPT !.position = position,
                   !.phrase = IF @.open THEN push_word(@, token, position) ELSE @,
                   !.terms = IF st.phrase.open \/ (~last /\ token.kind = "StopWord") THEN @
                             ELSE Append(@, located(last))]

ReadSeparator(st, token) ==
    LET hard    == token.kind = "Hard"
        cut     == IF hard THEN Closed(st.terms, st.phrase) ELSE st.terms
        phrase  == IF hard /\ st.phrase.open THEN EmptyPhrase ELSE st.phrase
        left    == IF phrase.open THEN token.quotes - 1 ELSE token.quotes
    IN  [st EXCEPT !.position = IF hard THEN @ + 7 ELSE @,
                   !.terms = IF token.quotes = 0 THEN cut ELSE Closed(cut, phrase),
                   !.phrase = IF token.quotes = 0 THEN phrase
                              ELSE IF left % 2 = 1 THEN EmptyPhrase ELSE NoPhrase]

ReadToken(ctx, st, token, last, words_limit) ==
    IF st.full \/ Len(st.terms) >= words_limit THEN [st EXCEPT !.full = TRUE]
    ELSE IF token.kind \in {"Word", "StopWord"} THEN ReadWord(ctx, st, token, last)
    ELSE ReadSeparator(st, token)

located_query_terms_from_tokens(ctx, tokens, words_limit) ==
    LET read[i \in 0..Len(tokens)] ==
            IF i = 0 THEN [terms |-> <<>>, position |-> -1, phrase |-> NoPhrase, full |-> FALSE]
            ELSE ReadToken(ctx, read[i - 1], tokens[i], i = Len(tokens), words_limit)
        ended(st) == IF st.full THEN st.terms ELSE Closed(st.terms, st.phrase)
    IN  ended(read[Len(tokens)])

-----------------------------------------------------------------------------
(* compute_phrase_docids: the documents with one of the words in which     *)
(* every window of three has its words at their distance, or closer.       *)
compute_phrase_docids(ctx, words) ==
    LET n       == Len(words)
        real    == {i \in 1..n : words[i] # StopWord}
        pairs   == {p \in real \X real : p[1] < p[2] /\ p[2] - p[1] <= 2}
        near(p) == UNION {get_db_word_pair_proximity_docids(ctx, words[p[1]], words[p[2]], k) :
                            k \in 1..(p[2] - p[1])}
    IN  IF \E i \in real : word_docids(ctx, Original(words[i])) = {} THEN {}
        ELSE {d \in UNION {word_docids(ctx, Original(words[i])) : i \in real} :
                \A p \in pairs : d \in near(p)}

compute_query_term_subset_docids(ctx, s) ==
    UNION {word_docids(ctx, w) : w \in all_single_words_except_prefix_db(ctx, s)}
    \cup UNION {compute_phrase_docids(ctx, p) : p \in all_phrases(ctx, s)}
    \cup (IF use_prefix_db(s) THEN word_prefix_docids(ctx, PrefixOf(s)) ELSE {})

FirstWord(phrase) == SelectSeq(phrase, LAMBDA w : w # StopWord)[1]

(* A phrase is searched where its first word is.                           *)
compute_query_term_subset_docids_within_field_id(ctx, s, fid) ==
    UNION {get_db_word_fid_docids(ctx, w.word, fid) : w \in all_single_words_except_prefix_db(ctx, s)}
    \cup UNION {compute_phrase_docids(ctx, p) \cap get_db_word_fid_docids(ctx, FirstWord(p), fid) :
                    p \in all_phrases(ctx, s)}
    \cup (IF use_prefix_db(s) THEN get_db_word_prefix_fid_docids(ctx, PrefixOf(s).word, fid) ELSE {})

compute_query_term_subset_docids_within_position(ctx, s, position) ==
    UNION {get_db_word_position_docids(ctx, w.word, position) : w \in all_single_words_except_prefix_db(ctx, s)}
    \cup UNION {compute_phrase_docids(ctx, p) \cap get_db_word_position_docids(ctx, FirstWord(p), position) :
                    p \in all_phrases(ctx, s)}
    \cup (IF use_prefix_db(s) THEN get_db_word_prefix_position_docids(ctx, PrefixOf(s).word, position) ELSE {})

-----------------------------------------------------------------------------
(***************************************************************************)
(* The query graph (milli/src/search/new/query_graph.rs) and its           *)
(* resolution.  Nodes are numbered; data gives the kind of each and, for a *)
(* term, the subset of derivations with its positions and term ids; succ   *)
(* gives the edges.                                                        *)
(***************************************************************************)

Root == 1
End  == 2

NodeData(kind, term) == [kind |-> kind, term |-> term]
Located(s, positions, ids) == [sub |-> s, positions |-> positions, ids |-> ids]
NoTerm == Located(full(Term(<<>>, 0, FALSE)), <<0, 0>>, <<0, 0>>)
Start == NodeData("Start", NoTerm)
EndData == NodeData("End", NoTerm)
Deleted == NodeData("Deleted", NoTerm)

Nodes(g) == DOMAIN g.data
TermNodes(g) == {n \in Nodes(g) : g.data[n].kind = "Term"}
Pred(g, n) == {m \in Nodes(g) : n \in g.succ[m]}
IdsLen(term) == term.ids[2] - term.ids[1] + 1

(* build_initial_edges: the nodes whose term starts the soonest after the  *)
(* end of this one, the end node when there is none.                       *)
Successors(data, n) ==
    LET from  == IF data[n].kind = "Start" THEN 0 ELSE data[n].term.ids[2]
        after == {m \in DOMAIN data : data[m].kind = "Term" /\ data[m].term.ids[1] > from}
    IN  CASE data[n].kind \in {"End", "Deleted"} -> {}
          [] data[n].kind \in {"Start", "Term"} /\ after = {} -> {End}
          [] OTHER -> {m \in after : \A k \in after : data[m].term.ids[1] <= data[k].term.ids[1]}

build_initial_edges(data) == [data |-> data, succ |-> [n \in DOMAIN data |-> Successors(data, n)]]

(* from_query: a node for every term, and for every pair and triple of     *)
(* consecutive words.                                                      *)
from_query(ctx, terms) ==
    LET gram(i, k) == SubSeq(terms, i - k + 1, i)
        node(t, i, k) == NodeData("Term", Located(full(t.term), t.positions, <<i - k + 1, i>>))
        grams(i) == [k \in 1..3 |->
                        IF k = 1 THEN <<node(terms[i], i, 1)>>
                        ELSE IF k <= i /\ NgramAllowed(gram(i, k))
                             THEN <<node(make_ngram(ctx, gram(i, k)), i, k)>>
                             ELSE <<>>]
    IN  build_initial_edges(<<Start, EndData>>
            \o FlattenSeq([i \in 1..Len(terms) |-> FlattenSeq(grams(i))]))

(* remove_nodes_keep_edges: one node after the other, the predecessors     *)
(* of a node being linked to its successors.                               *)
RemoveNodeKeepEdges(g, n) ==
    [data |-> [g.data EXCEPT ![n] = Deleted],
     succ |-> [m \in Nodes(g) |->
                IF m = n THEN {}
                ELSE IF n \in g.succ[m] THEN (g.succ[m] \ {n}) \cup g.succ[n] ELSE g.succ[m]]]
remove_nodes_keep_edges(g, nodes) == FoldLeft(RemoveNodeKeepEdges, g, nodes)

(* removal_order_for_terms_matching_strategy_last: the nodes in the order  *)
(* the words are given up, the last words of the query first.  Phrases and *)
(* mandatory terms stay; without one of them the first word does.          *)
removal_order_for_terms_matching_strategy_last(g) ==
    LET firsts == {g.data[n].term.ids[1] : n \in TermNodes(g)}
        lasts  == {g.data[n].term.ids[2] : n \in TermNodes(g)}
        kept   == {n \in TermNodes(g) : \/ original_phrase(g.data[n].term.sub) # <<>>
                                        \/ g.data[n].term.sub.mandatory}
        free   == TermNodes(g) \ kept
        starts == SetToSortSeq({g.data[n].term.ids[1] : n \in free}, >)
        groups == [i \in 1..Len(starts) |-> {n \in free : g.data[n].term.ids[1] = starts[i]}]
    IN  IF TermNodes(g) = {} \/ Min(firsts) >= Max(lasts) THEN <<>>
        ELSE IF kept = {} THEN SubSeq(groups, 1, Len(groups) - 1) ELSE groups

words_in_phrases_count(g) ==
    FoldSet(LAMBDA n, acc :
        acc + Len(SelectSeq(original_phrase(g.data[n].term.sub), LAMBDA w : w # StopWord)),
        0, TermNodes(g))

(* build_from_paths: the graph of the paths of conditions a rule followed. *)
(* A pair of terms met twice is taken once, with what both kept of it; the *)
(* paths are shared from the end.                                          *)
SingleTerms(path) ==
    LET step(acc, c) ==
            CASE acc.prev = <<>> -> [out |-> acc.out \o c.start, prev |-> <<c.end>>]
              [] acc.prev # <<>> /\ c.start = <<>> -> [out |-> acc.out \o acc.prev, prev |-> <<c.end>>]
              [] OTHER ->
                   IF c.start[1].ids = acc.prev[1].ids
                   THEN [out |-> Append(acc.out, [c.start[1] EXCEPT !.sub = intersect(@, acc.prev[1].sub)]),
                         prev |-> <<c.end>>]
                   ELSE [out |-> acc.out \o acc.prev \o c.start, prev |-> <<c.end>>]
        res == FoldLeft(step, [out |-> <<>>, prev |-> <<>>], path)
    IN  res.out \o res.prev

SuffixesOf(terms) == [i \in 1..Len(terms) |-> SubSeq(terms, i, Len(terms))]

build_from_paths(paths) ==
    LET id(suffixes, s) == IF s = <<>> THEN End ELSE 2 + CHOOSE i \in 1..Len(suffixes) : suffixes[i] = s
        graph(singles, suffixes) ==
            [data |-> <<Start, EndData>> \o [i \in 1..Len(suffixes) |-> NodeData("Term", suffixes[i][1])],
             succ |-> [n \in 1..(2 + Len(suffixes)) |->
                        IF n = Root THEN {id(suffixes, singles[i]) : i \in 1..Len(singles)}
                        ELSE IF n = End THEN {}
                        ELSE {id(suffixes, Tail(suffixes[n - 2]))}]]
        add(acc, s) == IF s \in Range(acc) THEN acc ELSE Append(acc, s)
        of(singles) ==
            graph(singles, FoldLeft(add, <<>>, FlattenSeq([i \in 1..Len(singles) |-> SuffixesOf(singles[i])])))
    IN  of([i \in 1..Len(paths) |-> SingleTerms(paths[i])])

(* compute_query_graph_docids: a document reaches a node if it reaches one *)
(* of its predecessors and has the term of the node.                       *)
compute_query_graph_docids(ctx, g, universe) ==
    LET term  == [n \in TermNodes(g) |-> compute_query_term_subset_docids(ctx, g.data[n].term.sub)]
        reach[n \in Nodes(g)] ==
            IF n = Root THEN universe
            ELSE LET before == UNION {reach[m] : m \in Pred(g, n)}
                 IN  IF n = End THEN before ELSE before \cap term[n]
    IN  reach[End]

(* resolve_maximally_reduced_query_graph: the documents with the words     *)
(* that are never given up.                                                *)
NodesToRemove(g, strategy) ==
    IF strategy = "All" THEN <<>>
    ELSE SetToSortSeq(UNION Range(removal_order_for_terms_matching_strategy_last(g)), <)
resolve_maximally_reduced_query_graph(ctx, universe, g, strategy) ==
    compute_query_graph_docids(ctx, remove_nodes_keep_edges(g, NodesToRemove(g, strategy)), universe)
====
