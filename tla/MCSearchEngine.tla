---- MODULE MCSearchEngine ----
(* Instances of SearchEngine.  Characters are numbers; the fields are f1,  *)
(* f2 and, for the facets, f3.                                             *)
EXTENDS SearchEngine

F1 == "f1"
F2 == "f2"
F3 == "f3"
Hel == <<1, 2, 3>>       \* a word of the queries
Hal == <<1, 7, 3>>       \* a typo away from it
Wor == <<4, 5, 6>>       \* another word of the queries
Worx == <<4, 5, 6, 8>>   \* which is a prefix of this one
HelWor == Hel \o Wor     \* the two words written as one
Other == <<9>>
The == <<2>>             \* a stop word

Settings == [searchable |-> <<>>, exact_attributes |-> {}, stop_words |-> {The}, faceted |-> {},
             authorize_typos |-> TRUE, min_one |-> 3, min_two |-> 6, exact_words |-> {},
             synonyms |-> <<>>]

Criterion(kind) == [kind |-> kind, field |-> ""]
Default == <<Criterion("Words"), Criterion("Typo"), Criterion("Proximity"), Criterion("Attribute"),
             Criterion("Sort"), Criterion("Exactness")>>

Ctx(documents, settings, criteria) ==
    [post |-> Postings(documents, settings, <<F1, F2, F3>>), prefixes |-> {<<4>>, <<4, 5>>, <<4, 5, 6>>},
     fields |-> <<F1, F2, F3>>, settings |-> settings, documents |-> DOMAIN documents, restricted |-> <<>>,
     numbers |-> <<>>, strings |-> <<>>, geo |-> <<>>, criteria |-> criteria,
     sortable |-> {F3, "_geo"}, distinct |-> "", max_total_hits |-> 4]

Library == [d \in 1..5 |->
    CASE d = 1 -> (1 :> <<Other, Hel, Other, Worx>>)
      [] d = 2 -> (1 :> <<Wor, Hel>>) @@ (2 :> <<Hel, Wor>>)
      [] d = 3 -> (1 :> <<HelWor>>)
      [] d = 4 -> (2 :> <<Hal, Wor>>)
      [] d = 5 -> (1 :> <<Hel>>)]

(* Other libraries: the documents of any three of these contents.          *)
Contents == <<(1 :> <<Hel, Wor>>), (2 :> <<Wor, Other, Hel>>), (1 :> <<Hal>>) @@ (2 :> <<Worx>>),
              (1 :> <<HelWor, Wor>>), (2 :> <<Hel>>), (1 :> <<Other>>) @@ (2 :> <<Hal, Wor>>),
              (1 :> <<Hel, Hard, Wor, Hel>>), (1 :> <<The, Other, Wor>>) @@ (2 :> <<Hel, Other>>)>>
Three == {<<Contents[i], Contents[j], Contents[k]>> :
            <<i, j, k>> \in {t \in (1..8) \X (1..8) \X (1..8) : t[1] < t[2] /\ t[2] < t[3]}}

(* Documents in which the same words are at different distances.           *)
Near == <<(1 :> <<Other, Hel, The, Wor>>), (1 :> <<Other, The, Hel, Wor>>)>>

Number(v) == [d \in 1..5 |-> {v[d]}]
Plain == Ctx(Library, Settings, Default)
Faceted == [Plain EXCEPT !.numbers = F3 :> Number(<<3, 1, 3, 2, 1>>), !.strings = F3 :> [d \in 1..5 |-> {}]]
Distinct == [Faceted EXCEPT !.distinct = F3]
Located3 == [Faceted EXCEPT !.geo = 2 :> 5 @@ 3 :> 1 @@ 5 :> 3]
Exact == Ctx(Library, [Settings EXCEPT !.exact_attributes = {F1}], Default)
Synonyms == Ctx(Library, [Settings EXCEPT !.synonyms = (<<Other>> :> <<<<Hel, Wor>>, <<Hal>>>>)], Default)
TypoFirst == [Plain EXCEPT !.criteria = <<Criterion("Typo"), Criterion("Exactness"), Criterion("Proximity")>>]

W(w) == [kind |-> "Word", word |-> w, quotes |-> 0]
Space == [kind |-> "Soft", word |-> <<>>, quotes |-> 0]
Quote == [kind |-> "Soft", word |-> <<>>, quotes |-> 1]
Two == <<W(Hel), Space, W(Wor)>>

Search(ctx, tokens) ==
    [ctx |-> ctx, tokens |-> tokens, strategy |-> "Last", sort |-> <<>>, universe |-> ctx.documents,
     attributes |-> {}, neighbors |-> <<>>]

SortBy(field, kind) == [kind |-> kind, field |-> field]

MCSearches ==
    {Search(Plain, Two),
     [Search(Plain, Two) EXCEPT !.strategy = "All"],
     Search(Plain, <<W(Hel), Space, W(Other), Space, W(Wor)>>),
     Search(Plain, <<Quote, W(Hel), Space, W(Wor), Quote, W(Other)>>),
     Search(Ctx(Near, Settings, Default), <<W(Other), Space, W(Hel), Space, W(Wor)>>),
     Search(Exact, Two),
     Search(Synonyms, <<W(Other), Space, W(HelWor)>>),
     Search(TypoFirst, <<W(HelWor)>>),
     [Search(Plain, Two) EXCEPT !.attributes = {F2}],
     [Search(Faceted, Two) EXCEPT !.sort = <<SortBy(F3, "Desc")>>],
     [Search(Distinct, Two) EXCEPT !.universe = {1, 2, 3, 4}],
     [Search(Distinct, <<>>) EXCEPT !.sort = <<SortBy(F3, "Asc")>>],
     [Search(Located3, <<>>) EXCEPT !.sort = <<SortBy("_geo", "Asc"), SortBy(F3, "Asc")>>],
     Search(Faceted, <<>>),
     [Search(Distinct, <<>>) EXCEPT !.neighbors = <<3, 1, 3, 2>>, !.universe = {1, 2, 3}],
     [Search(Faceted, <<>>) EXCEPT !.sort = <<SortBy(F1, "Asc")>>]}
    \cup {Search(Ctx(library, Settings, criteria), tokens) :
            library \in Three, criteria \in {Default, TypoFirst.criteria},
            tokens \in {Two, <<W(Other), Space, W(Hel), Space, W(Wor)>>}}

Page(number, size) == [page |-> number, hits_per_page |-> size, offset |-> 0, limit |-> 20, detailed |-> FALSE]
MCPages == {Page(1, 2), Page(2, 2), Page(3, 2), Page(None, 3), Page(0, 2), Page(2, None),
            [Page(None, None) EXCEPT !.offset = 1, !.limit = 2],
            [Page(None, None) EXCEPT !.offset = 2, !.limit = 1, !.detailed = TRUE]}
====
