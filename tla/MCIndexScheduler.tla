-------------------------- MODULE MCIndexScheduler --------------------------
(* Instances of IndexScheduler for TLC.                                     *)
EXTENDS IndexScheduler, TLC

CONSTANTS c1, c2, a, b, id

Addition(i) == [Bare("DocumentAdditionOrUpdate") EXCEPT !.index = i, !.create = TRUE]
On(type, i) == [Bare(type) EXCEPT !.index = i]
Swap(i, j) == [Bare("IndexSwap") EXCEPT !.swaps = {<<i, j>>}]
Cancel(S) == [Bare("TaskCancelation") EXCEPT !.tasks = S]

OneIndex == {a}
TwoIndexes == {a, b}
OneKey == {id}
OneClient == {c1}
TwoClients == {c1, c2}
ClientSymmetry == Permutations(Clients)

\* Additions that are canceled while they wait or while they are processed.
CancelRequests == {Addition(a), Cancel(TaskIds)}

\* The same, with dumps taken while documents arrive.
ProgressRequests == CancelRequests \cup {Bare("DumpCreation")}

\* Two indexes that both receive documents and whose names are swapped, one of
\* which is deleted and created again.
SwapRequests == {Addition(a), Addition(b), Swap(a, b), On("IndexDeletion", a)}

\* Everything that is done to one index, and snapshots taken meanwhile.
KindRequests == {Addition(a)} \cup {[Addition(a) EXCEPT !.create = FALSE]}
  \cup {[On("SettingsUpdate", a) EXCEPT !.create = TRUE]}
  \cup {[On("IndexUpdate", a) EXCEPT !.pk = id]}
  \cup {On(k, a) : k \in {"DocumentDeletion", "DocumentDeletionByFilter", "DocumentClear",
                          "IndexDeletion", "IndexCreation"}}
  \cup {Bare("SnapshotCreation")}
=============================================================================
