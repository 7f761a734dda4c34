-------------------------- MODULE BatchEquivalence --------------------------
(***************************************************************************)
(* What batching must not change: processing the tasks that autobatch puts *)
(* together gives the index, and each task, the same fate as processing    *)
(* these tasks one after the other.                                        *)
(*                                                                         *)
(* The queue of one index grows, and in every state the first batch of it  *)
(* is compared with its tasks taken one by one.  One document stands for   *)
(* all of them: it is the set of the additions it is made of.  Settings    *)
(* are the last task that wrote them.                                      *)
(***************************************************************************)
EXTENDS Autobatcher, Sequences

CONSTANTS
  TaskKinds,     \* the tasks that may be enqueued
  StartIndexes,  \* the states the index may be in
  Inferred       \* the primary key that milli infers from the documents

ASSUME TaskKindsAssumption ==
  /\ TaskKinds \subseteq {k \in KindWithContent : k.type \in IndexKinds}
  /\ Inferred \in PrimaryKeys

VARIABLES
  queue,   \* the enqueued tasks of the index, in the order of their uids
  index    \* the index before the batch

vars == <<queue, index>>

State(exists, pk, doc, settings) ==
  [exists |-> exists, pk |-> pk, doc |-> doc, settings |-> settings]

NoIndex == State(FALSE, None, {}, None)

\* An index that is missing has no key, no documents and no settings.
ASSUME StartIndexesAssumption ==
  \A s \in StartIndexes :
    /\ s = NoIndex \/ s = State(TRUE, s.pk, s.doc, s.settings)
    /\ s.pk \in PrimaryKeys \cup {None}

Init == queue = <<>> /\ index \in StartIndexes

Enqueue(kind) ==
  /\ Len(queue) < MaxTasks
  /\ queue' = Append(queue, kind)
  /\ UNCHANGED index

Next == \E kind \in TaskKinds : Enqueue(kind)

Spec == Init /\ [][Next]_vars

-----------------------------------------------------------------------------
(* The reference: one task alone.                                           *)

\* The key of an index after an addition that names key or leaves it open.
KeyAfter(s, key) ==
  IF s.pk # None THEN s.pk ELSE IF key # None THEN key ELSE Inferred

\* The document after an addition or a deletion.
DocumentAfter(doc, t, kind, method) ==
  IF kind.type = "DocumentDeletion" THEN {}
  ELSE IF method = "Update" THEN doc \cup {t} ELSE {t}

KeyRefused(s, key) == key # None /\ s.pk \notin {None, key}

Done(s)   == [ok |-> TRUE, index |-> s]
Failed(s) == [ok |-> FALSE, index |-> s]

ProcessAlone(s, t, kind) ==
  LET there == s.exists \/ MustCreateIndex(kind)
      kept == State(TRUE, s.pk, s.doc, s.settings)
  IN IF kind.type = "IndexCreation" THEN IF s.exists THEN Failed(s) ELSE Done(kept)
     ELSE IF ~there THEN Failed(s)
     ELSE CASE kind.type = "DocumentAdditionOrUpdate" ->
                 IF KeyRefused(s, kind.pk) THEN Failed(s)
                 ELSE Done(State(TRUE, KeyAfter(s, kind.pk),
                                 DocumentAfter(s.doc, t, kind, kind.method), s.settings))
            [] kind.type \in {"DocumentDeletion", "DocumentClear"} ->
                 Done(State(TRUE, s.pk, {}, s.settings))
            [] kind.type = "SettingsUpdate" -> Done(State(TRUE, s.pk, s.doc, t))
            [] kind.type = "IndexDeletion" -> Done(NoIndex)
            [] OTHER -> Done(kept)

-----------------------------------------------------------------------------
(* The first batch, and what create_next_batch_index and process_batch make *)
(* of it.                                                                   *)

Uids == 0 .. Len(queue) - 1
KindOf == [t \in Uids |-> queue[t + 1]]

Batch == Autobatch(Uids, KindOf, index.exists, index.pk)

Verdict == Verdicts(Batchable(Uids, KindOf), KindOf, index.exists, index.pk)
Method == Verdict[Highest(Batch.ids)].batch.method

AdditionsOf(ids) == {t \in ids : KindOf[t].type = "DocumentAdditionOrUpdate"}

\* Mutant: the operation leaves the key open whatever its additions name.
BatchKeyLost == None

\* The primary key of the operation is the one of its first addition.
BatchKey ==
  LET additions == AdditionsOf(Batch.ids)
  IN IF additions = {} THEN None ELSE KindOf[Lowest(additions)].pk

\* The settings tasks of the batch, the last one deciding.
SettingsAfter(s) ==
  LET settings == {t \in Batch.ids : KindOf[t].type = "SettingsUpdate"}
  IN IF settings = {} THEN s.settings ELSE Highest(settings)

\* The document operations of the batch in their order, all with one method.
OperationsAfter(s) ==
  LET last == Highest(Batch.ids)
      after[n \in 0 .. last + 1] ==
        IF n = 0 THEN s.doc
        ELSE IF KindOf[n - 1].type \in {"DocumentAdditionOrUpdate", "DocumentDeletion"}
        THEN DocumentAfter(after[n - 1], n - 1, KindOf[n - 1], Method)
        ELSE after[n - 1]
  IN after[last + 1]

\* apply_index_operation on an index that is there.
ApplyIndexOperation(s) ==
  CASE Batch.type \in {"DocumentClear", "ClearAndSettings"} ->
         Done(State(TRUE, s.pk, {}, SettingsAfter(s)))
    [] Batch.type = "DocumentDeletion" -> Done(State(TRUE, s.pk, {}, s.settings))
    [] Batch.type = "Settings" -> Done(State(TRUE, s.pk, s.doc, SettingsAfter(s)))
    [] Batch.type \in {"DocumentOperation", "SettingsAndDocumentOperation"} ->
         IF KeyRefused(s, BatchKey) THEN Failed(s)
         ELSE Done(State(TRUE, KeyAfter(s, BatchKey), OperationsAfter(s), SettingsAfter(s)))

\* process_batch: all its tasks succeed, or all fail.
ProcessTogether(s) ==
  IF Batch.type \in Alone THEN ProcessAlone(s, 0, KindOf[0])
  ELSE IF ~s.exists /\ ~Batch.create THEN Failed(s)
  ELSE IF Batch.type = "IndexDeletion" THEN Done(NoIndex)
  ELSE ApplyIndexOperation(State(TRUE, s.pk, s.doc, s.settings))

\* The tasks of the batch one by one: the n-th is the n-th of the queue.
OneByOne ==
  LET after[n \in 0 .. Highest(Batch.ids) + 1] ==
        IF n = 0 THEN Done(index)
        ELSE ProcessAlone(after[n - 1].index, n - 1, KindOf[n - 1])
  IN after

-----------------------------------------------------------------------------
(* Correctness.                                                             *)

\* The batch leaves the documents, the settings and the existence of the index as
\* its tasks would one by one, whatever rights to create the index, methods and
\* primary keys they have.
SameIndex ==
  queue # <<>> =>
    LET batched == ProcessTogether(index).index
        single  == OneByOne[Highest(Batch.ids) + 1].index
    IN /\ batched.exists = single.exists
       /\ batched.doc = single.doc
       /\ batched.settings = single.settings

\* A task of the batch fails exactly if it would fail by itself, after the tasks
\* before it: batching (create_next_batch_index, process_batch) makes all tasks of a
\* batch fail together, so it may only join tasks that fail together anyway.
SameFate ==
  queue # <<>> =>
    \A t \in Batch.ids : OneByOne[t + 1].ok = ProcessTogether(index).ok

\* The primary key is the same too, unless documents are cleared: the additions
\* before a clear are not indexed, so that the key they name or imply is not set.
SamePrimaryKey ==
  (queue # <<>> /\ \A t \in Batch.ids : KindOf[t].type # "DocumentClear") =>
    ProcessTogether(index).index.pk = OneByOne[Highest(Batch.ids) + 1].index.pk

\* accumulate, 2.1.1: "If the task we're trying to accumulate have a pk it must be
\* equal to our primary key".
AccumulatedKeysMatch ==
  queue # <<>> =>
    \A t \in AdditionsOf(Batch.ids) \ {0} :
      index.pk # None => KindOf[t].pk \in {None, index.pk}

\* A batch gives its tasks and the whole index the fate they would have one by one:
\* success or failure, documents, settings, existence and primary key (autobatch,
\* apply_index_operation).
SameAsOneByOne == SameFate /\ SameIndex /\ SamePrimaryKey
=============================================================================
