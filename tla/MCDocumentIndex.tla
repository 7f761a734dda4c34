---- MODULE MCDocumentIndex ----
(* Instances of DocumentIndex.  Characters are numbers: the words share    *)
(* their first one, or not; the fields are f1 and f2.                      *)
EXTENDS DocumentIndex, TLC

F1 == "f1"
F2 == "f2"
Fields == <<F1, F2>>

Symmetry == Permutations(ExternalIds)

(* Contents with prefixes in common, one of them with two fields: its      *)
(* first one has words that are too long between two that are three apart, *)
(* and a word after the last position; its second one has two neighbours.  *)
Long == <<3, 3, 3>>
MCContents == {F2 :> <<<<1, 2>>>>,
               (F1 :> <<<<2>>, Long, Long, <<1, 3>>, <<4>>>>) @@ (F2 :> <<<<2, 4>>, <<5>>>>)}

Choice(searchable, exact, stop, faceted) ==
    [searchable |-> searchable, exact_attributes |-> exact,
     stop_words |-> stop, faceted |-> faceted]

\* No field exact, all of them, some of them.
MCSettings == {Choice(<<>>, {}, {}, {}), Choice(<<>>, {}, {<<2>>}, {}),
               Choice(<<F2>>, {F2}, {}, {F1}),
               Choice(<<F2, F1>>, {F1}, {<<2>>}, {F2})}

\* Settings that mix exact fields and others.
MixedSettings == {Choice(<<>>, {}, {}, {}), Choice(<<>>, {F1}, {}, {})}
====
