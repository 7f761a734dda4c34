------------------------------- MODULE Matcher --------------------------------
(***************************************************************************)
(* Matches in a text, the crop around them and their highlighting          *)
(* (milli/src/search/new/matches).  A text is a sequence of tokens; bounds *)
(* always fall between tokens, so the byte index of a bound is the number  *)
(* of tokens before it.                                                    *)
(***************************************************************************)
EXTENDS Integers, Sequences, FiniteSets, SequencesExt, FiniteSetsExt, ClientRequest

CONSTANTS
    TextTokens,          \* the tokens a text is made of
    SoftSeparators, HardSeparators,
    CharLen,             \* word |-> its number of characters
    StartsWith(_, _),    \* does this word start with that one?
    FreeTextTokens,      \* the longest text of any tokens in any order
    MaxTextTokens,       \* the longest text whose words are separated
    Queries,             \* the located terms of the queries, in order
    CropSizes            \* the crop lengths asked

is_separator(t) == t \in SoftSeparators \cup HardSeparators
IsWordToken(t) == ~is_separator(t)

\* The formatter's tokenizer is built without the stop words of the index, so that no token
\* is a stop word for it (meilisearch/src/search.rs:486-493).
is_stopword(t) == FALSE

\* MatchingWords::new: the phrases and words of all the terms, the prefixes last, and among
\* the others those that stand for several words of the query first.
MatchingWords(terms) ==
    LET key(t) == (IF t.prefix THEN 100 ELSE 0) - Cardinality(t.ids)
        phrases == [k \in 1..Len(terms) |->
                      [j \in 1..Len(terms[k].phrases) |->
                         [words |-> terms[k].phrases[j], ids |-> terms[k].ids]]]
    IN  [phrases |-> FlattenSeq(phrases),
         words |-> SortSeq(terms, LAMBDA s, t : key(s) < key(t))]

\* match_unique_words: the characters and query words matched by a token alone; ids is empty
\* when there are none.
MatchOne(term, token) ==
    LET prefixes == {k \in 1..Len(term.words) :
                       term.prefix /\ term.count > 0 /\ StartsWith(token, term.words[k])}
        exact == {k \in 1..Len(term.words) : token = term.words[k]}
        k == Min(prefixes \cup exact)
    IN  IF prefixes \cup exact = {} THEN [len |-> 0, ids |-> {}]
        ELSE [len |-> IF k \in prefixes THEN Min({term.count, CharLen[term.words[k]]})
                      ELSE CharLen[token],
              ids |-> term.ids]

match_unique_words(mw, token) ==
    LET hits == {k \in 1..Len(mw.words) : MatchOne(mw.words[k], token).ids # {}}
    IN  IF hits = {} THEN [len |-> 0, ids |-> {}] ELSE MatchOne(mw.words[Min(hits)], token)

\* PartialMatch::match_token on the first of the remaining words of a phrase.
MatchesNext(word, token) == IF word = "STOP" THEN is_stopword(token) ELSE token = word

\* The token positions of the words of a text.
WordTokens(text) == SelectSeq([k \in 1..Len(text) |-> k], LAMBDA k : IsWordToken(text[k]))

\* compute_partial_match: the w-th word of the text and those after it are the phrase.
FullPhrase(text, words, w, phrase) ==
    /\ w + Len(phrase) - 1 <= Len(words)
    /\ \A k \in 1..Len(phrase) : MatchesNext(phrase[k], text[words[w + k - 1]])

\* compute_matches from the w-th word: the first phrase that is complete from here takes all
\* of its words, else a term may match this one.
RECURSIVE MatchesFrom(_, _, _, _)
MatchesFrom(text, words, mw, w) ==
    IF w > Len(words) THEN <<>>
    ELSE LET full == {p \in 1..Len(mw.phrases) : FullPhrase(text, words, w, mw.phrases[p].words)}
             phrase == mw.phrases[Min(full)]
             one == match_unique_words(mw, text[words[w]])
             m(k, len, ids) == [token |-> words[k], word |-> k - 1, len |-> len, ids |-> ids]
         IN  IF full # {}
             THEN [k \in 1..Len(phrase.words) |->
                     m(w + k - 1, CharLen[text[words[w + k - 1]]], phrase.ids)]
                  \o MatchesFrom(text, words, mw, w + Len(phrase.words))
             ELSE IF one.ids # {}
             THEN <<m(w, one.len, one.ids)>> \o MatchesFrom(text, words, mw, w + 1)
             ELSE MatchesFrom(text, words, mw, w + 1)

\* Mutant: a word that begins a phrase which fails is not looked at alone.
ForgetsFailedPhrase(text, mw) ==
    LET words == WordTokens(text)
        begun(m) == \E p \in 1..Len(mw.phrases) :
                      /\ MatchesNext(mw.phrases[p].words[1], text[m.token])
                      /\ ~FullPhrase(text, words, m.word + 1, mw.phrases[p].words)
    IN  SelectSeq(MatchesFrom(text, words, mw, 1), LAMBDA m : ~begun(m))

compute_matches(text, mw) == MatchesFrom(text, WordTokens(text), mw, 1)

-------------------------------------------------------------------------------
\* match_interval_score of matches[i..j]: distinct query words, closeness, order.
Ids(ms, i, j) == UNION {ms[k].ids : k \in i..j}

match_interval_score(ms, i, j) ==
    LET gap(k) == Min({ms[k + 1].word - ms[k].word, 7})
        ordered == {k \in i..j - 1 : Min(ms[k + 1].ids) > Min(ms[k].ids)}
    IN  <<Cardinality(Ids(ms, i, j)),
          0 - FoldSet(LAMBDA k, n : gap(k) + n, 0, i..j - 1),
          Cardinality(ordered)>>

\* Mutant: closeness is compared before the number of words.
CloserFirst(s, t) == s[2] > t[2] \/ (s[2] = t[2] /\ s[1] > t[1])

Better(s, t) ==
    \/ s[1] > t[1]
    \/ s[1] = t[1] /\ (s[2] > t[2] \/ (s[2] = t[2] /\ s[3] > t[3]))

\* find_best_match_interval, from the next match on: the interval [first, last] grows until
\* the next match would make it longer than the crop.
RECURSIVE ScanIntervals(_, _, _, _, _, _)
ScanIntervals(ms, size, first, last, best, next) ==
    LET score == match_interval_score(ms, first, last)
        kept == IF Better(score, best.score) THEN [first |-> first, last |-> last, score |-> score]
                ELSE best
        tooLong == ms[next].word - ms[first].word >= size
        start == Min({k \in first..next : ms[next].word - ms[k].word < size})
    IN  IF next > Len(ms) THEN kept
        ELSE IF tooLong THEN ScanIntervals(ms, size, start, next, kept, next + 1)
        ELSE ScanIntervals(ms, size, first, next, best, next + 1)

find_best_match_interval(ms, size) ==
    IF Len(ms) <= 1 THEN ms
    ELSE LET best == ScanIntervals(ms, size, 1, 1,
                        [first |-> 1, last |-> 1, score |-> match_interval_score(ms, 1, 1)], 2)
         IN  SubSeq(ms, best.first, best.last)

-------------------------------------------------------------------------------
\* crop_bounds: the window [start, end] of tokens grows on both sides until it holds the
\* words asked.  start is the last token outside on the left, end the last one inside.
Kind(text, k) == IF IsWordToken(text[k]) THEN "word"
                 ELSE IF text[k] \in HardSeparators THEN "hard" ELSE "soft"

RECURSIVE Grow(_, _, _, _)
Grow(text, start, end, remaining) ==
    LET left == Kind(text, start)
        right == Kind(text, end + 1)
        word(kind) == IF kind = "word" THEN 1 ELSE 0
    IN  IF remaining = 0 \/ (start = 0 /\ end = Len(text)) THEN <<start, end>>
        ELSE IF start = 0 THEN Grow(text, 0, end + 1, remaining - word(right))
        ELSE IF end = Len(text) THEN Grow(text, start - 1, end, remaining - word(left))
        ELSE CASE left = "word" /\ right = "word" ->
                    IF remaining > 1 THEN Grow(text, start - 1, end + 1, remaining - 2)
                    ELSE Grow(text, start - 1, end, 0)
               [] left = "word" /\ right # "word" -> Grow(text, start - 1, end, remaining - 1)
               [] left # "word" /\ right = "word" -> Grow(text, start, end + 1, remaining - 1)
               [] left # "word" /\ left = right ->
                    Grow(text, start - 1, IF remaining > 1 THEN end + 1 ELSE end, remaining)
               [] left = "hard" /\ right = "soft" -> Grow(text, start, end + 1, remaining)
               [] left = "soft" /\ right = "hard" -> Grow(text, start - 1, end, remaining)

\* Mutant: the words from the first match to the last are not counted.
ForgetsInterval(text, ms, size) ==
    IF ms = <<>> THEN Grow(text, 0, 0, size) ELSE Grow(text, ms[1].token - 1, ms[Len(ms)].token - 1, size)

crop_bounds(text, ms, size) ==
    LET first == IF ms = <<>> THEN [word |-> 0, token |-> 1] ELSE [word |-> ms[1].word, token |-> ms[1].token]
        last == IF ms = <<>> THEN first
                ELSE [word |-> ms[Len(ms)].word, token |-> ms[Len(ms)].token]
    IN  Grow(text, first.token - 1, last.token - 1, size + first.word - last.word)

\* format: the pieces pushed.  A piece is a marker or the characters [from, to) of a token;
\* crop 0 stands for no crop.
Piece(k, from, to) == [marker |-> "", token |-> k, from |-> from, to |-> to]
Marker(name) == [marker |-> name, token |-> 0, from |-> 0, to |-> 0]
Width(t) == IF is_separator(t) THEN 1 ELSE CharLen[t]
Plain(text, from, to) == [k \in 1..to - from |-> Piece(from + k, 0, Width(text[from + k]))]

\* Mutant: the end of a word matched by its prefix is lost.
DropsTail(text, m) == <<Marker("pre"), Piece(m.token, 0, m.len), Marker("post")>>

Highlighted(text, m) ==
    LET tail == IF m.len < Width(text[m.token])
                THEN <<Piece(m.token, m.len, Width(text[m.token]))>> ELSE <<>>
    IN  <<Marker("pre"), Piece(m.token, 0, m.len), Marker("post")>> \o tail

\* The matches, with the text before each; the answer ends where the last match ends.
RECURSIVE PushMatches(_, _, _)
PushMatches(text, ms, at) ==
    IF ms = <<>> THEN [at |-> at, pieces |-> <<>>]
    ELSE LET rest == PushMatches(text, Tail(ms), Head(ms).token)
             before == IF at < Head(ms).token - 1 THEN Plain(text, at, Head(ms).token - 1) ELSE <<>>
         IN  [at |-> rest.at, pieces |-> before \o Highlighted(text, Head(ms)) \o rest.pieces]

Assembled(text, bounds, done) ==
    (IF bounds[1] > 0 THEN <<Marker("crop")>> ELSE <<>>)
    \o done.pieces
    \o (IF done.at < bounds[2] THEN Plain(text, done.at, bounds[2]) ELSE <<>>)
    \o (IF bounds[2] < Len(text) THEN <<Marker("crop")>> ELSE <<>>)

format(text, mw, highlight, crop) ==
    LET pushed(ms, bounds) ==
          Assembled(text, bounds, IF highlight THEN PushMatches(text, ms, bounds[1])
                                  ELSE [at |-> bounds[1], pieces |-> <<>>])
        cropped(ms) == pushed(ms, IF crop > 0 THEN crop_bounds(text, ms, crop) ELSE <<0, Len(text)>>)
        chosen(all) == cropped(IF crop > 0 THEN find_best_match_interval(all, crop) ELSE all)
    IN  chosen(compute_matches(text, mw))

-------------------------------------------------------------------------------
\* Do separators stand between all the words of the text?
Separated(text) == \A k \in 1..Len(text) - 1 : is_separator(text[k]) \/ is_separator(text[k + 1])

TextInit == request = [kind |-> "snippet", typed |-> <<>>]

TypeToken ==
    /\ request.kind = "snippet"
    /\ Len(request.typed) < MaxTextTokens
    /\ \E t \in TextTokens :
         /\ Len(request.typed) < FreeTextTokens \/ Separated(Append(request.typed, t))
         /\ request' = [request EXCEPT !.typed = Append(@, t)]

(***************************************************************************)
(* Properties, over every query and crop length.                           *)
(***************************************************************************)

\* compute_matches (matches/mod.rs:117-237) marks every word that matches a term alone, and
\* no word that is neither such a word nor part of a complete phrase; matches do not
\* overlap, even where a phrase that fails had begun.
MatchesExact ==
    request.kind = "snippet" => \A q \in Queries :
        \A text \in {request.typed}, mw \in {MatchingWords(q)} :
        \A words \in {WordTokens(text)}, ms \in {compute_matches(text, mw)} :
          LET alone == {k \in 1..Len(text) : IsWordToken(text[k]) /\ match_unique_words(mw, text[k]).ids # {}}
              inPhrase == {words[w + j - 1] : <<w, j>> \in
                            {<<w, j>> \in (1..Len(words)) \X (1..Len(words)) :
                               \E p \in 1..Len(mw.phrases) :
                                  /\ j <= Len(mw.phrases[p].words)
                                  /\ FullPhrase(text, words, w, mw.phrases[p].words)}}
              marked == {ms[k].token : k \in 1..Len(ms)}
          IN  /\ alone \subseteq marked
              /\ marked \subseteq alone \cup inPhrase
              /\ \A k \in 1..Len(ms) - 1 : ms[k].token < ms[k + 1].token

\* The crop shows as many of the query's words as any passage of its length can
\* (find_best_match_interval, matches/mod.rs:371-418).
CropShowsMost ==
    request.kind = "snippet" =>
      \A q \in Queries : \A ms \in {compute_matches(request.typed, MatchingWords(q))} :
        \A size \in CropSizes \ {0} : \A best \in {find_best_match_interval(ms, size)} :
          \A i, j \in 1..Len(ms) : i <= j /\ ms[j].word - ms[i].word < size =>
             Cardinality(Ids(ms, i, j)) <= Cardinality(Ids(best, 1, Len(best)))

\* In a text whose words are separated, the crop window has the number of words asked, or
\* the whole text, and it holds the matches it was chosen for (crop_bounds, 247-334).
CropExact ==
    request.kind = "snippet" /\ Separated(request.typed) =>
      \A q \in Queries : \A size \in CropSizes \ {0} :
        \A ms \in {find_best_match_interval(compute_matches(request.typed, MatchingWords(q)), size)} :
        \A b \in {crop_bounds(request.typed, ms, size)} :
        \A inside \in {{k \in b[1] + 1..b[2] : IsWordToken(request.typed[k])}} :
          /\ Cardinality(inside) = Min({size, Len(WordTokens(request.typed))})
          /\ \A k \in 1..Len(ms) : ms[k].token \in inside

\* Taking the markers out of a formatted text gives back a passage of the original, without
\* a gap or a repetition, whatever is highlighted and cropped (format, 421-494).
FormatFaithful ==
    request.kind = "snippet" =>
      \A q \in Queries : \A size \in CropSizes : \A highlight \in BOOLEAN :
        \A text \in {request.typed} :
        \A out \in {SelectSeq(format(text, MatchingWords(q), highlight, size), LAMBDA p : p.marker = "")} :
          LET follows(p, r) == \/ r.token = p.token /\ r.from = p.to
                               \/ r.token = p.token + 1 /\ r.from = 0 /\ p.to = Width(text[p.token])
          IN  /\ \A k \in 1..Len(out) - 1 : follows(out[k], out[k + 1])
              /\ size = 0 /\ text # <<>> => out # <<>> /\ out[1].token = 1 /\ out[Len(out)].token = Len(text)
              /\ text # <<>> => out # <<>>

\* A formatted text is a passage of the text, with the words of the query marked and as
\* many of them in the crop as fit (MatchingWords, Matcher).
TextsFormatted == MatchesExact /\ CropShowsMost /\ CropExact /\ FormatFaithful
===============================================================================
