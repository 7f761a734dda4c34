------------------------- MODULE MCBatchEquivalence -------------------------
(* Instances of BatchEquivalence for TLC.                                   *)
EXTENDS BatchEquivalence

CONSTANTS a, id, other

OneIndex == {a}
TwoKeys == {id, other}

On(type) == [Bare(type) EXCEPT !.index = a]

Additions(methods, rights, keys) ==
  {[On("DocumentAdditionOrUpdate") EXCEPT !.method = m, !.create = c, !.pk = k] :
     m \in methods, c \in rights, k \in keys}

\* Every kind that is about one index, with every right to create it.
AllKinds ==
  Additions({"Replace"}, BOOLEAN, {None, id}) \cup Additions({"Update"}, {TRUE}, {None})
  \cup {[On("SettingsUpdate") EXCEPT !.create = c] : c \in BOOLEAN}
  \cup {On(k) : k \in {"DocumentDeletion", "DocumentClear", "IndexDeletion", "IndexCreation"}}

\* The index is missing, empty, or has documents and the key that additions name.
AllStarts == {NoIndex, State(TRUE, None, {}, None), State(TRUE, id, {99}, None)}

\* An index with another key than the one additions name.
OtherStart == {State(TRUE, other, {99}, None)}
=============================================================================
