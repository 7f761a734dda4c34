---------------------------- MODULE Autobatcher -----------------------------
(***************************************************************************)
(* The autobatcher (index-scheduler/src/autobatcher.rs): which of the      *)
(* enqueued tasks of one index, taken in the order of their uids, are      *)
(* processed together, and as which operation.                             *)
(*                                                                         *)
(* A BatchKind carries here what accumulate() decides on; the lists of ids *)
(* it carries in the code are the set of the tasks it took (BatchIds).     *)
(* An Option is a set with at most one element: {} is None and {x} is      *)
(* Some(x).  The primary key of a batch or of a task is an                 *)
(* Option<Option<key>>: {} when it does not touch the primary key, {None}  *)
(* when it leaves the key to be inferred, {k} when it names one.           *)
(***************************************************************************)
EXTENDS TaskDatabase

\* Verdict of one round of autobatch: the task is taken and the batch goes on
\* ("Continue"), it is taken and closes the batch ("Absorb"), or the batch is
\* closed without it ("Stop").  The code's Break is either of the last two.
Continue(batch) == [flow |-> "Continue", batch |-> batch]
Absorb(batch)   == [flow |-> "Absorb", batch |-> batch]
Stop(batch)     == [flow |-> "Stop", batch |-> batch]

\* AutobatchKind::from.  The other kinds keep neither a creation right, a
\* primary key nor a method.
AutobatchKind(kind) ==
  CASE kind.type = "DocumentAdditionOrUpdate" ->
         [type |-> "DocumentImport", method |-> kind.method,
          create |-> {kind.create}, pk |-> {kind.pk}]
    [] kind.type = "SettingsUpdate" ->
         [type |-> "Settings", method |-> "Replace",
          create |-> {kind.create /\ ~kind.reset}, pk |-> {}]
    [] OTHER ->
         [type |-> kind.type, method |-> "Replace", create |-> {}, pk |-> {}]

BatchOf(type, kind) == [kind EXCEPT !.type = type]

\* BatchKind::new
BatchKindNew(kind, primary_key) ==
  LET k == AutobatchKind(kind) IN
  CASE k.type = "DocumentImport" ->
         IF primary_key = None \/ kind.pk \in {None, primary_key}
         THEN Continue(BatchOf("DocumentOperation", k))
         ELSE Absorb(BatchOf("DocumentOperation", k))
    [] k.type \in {"DocumentClear", "DocumentDeletion", "Settings"} -> Continue(k)
    [] OTHER -> Absorb(k)

\* The boolean of BatchKind::new: the index is created by the first task.
MustCreateIndex(kind) ==
  kind.type = "IndexCreation" \/ TRUE \in AutobatchKind(kind).create

\* The condition on primary keys of accumulate, un-negated.
PrimaryKeysAgree(this, kind, primary_key) ==
  \/ this.pk = {} /\ kind.pk = {}
  \/ primary_key # None /\ kind.pk \in {{}, {primary_key}}
  \/ this.pk = {} \/ kind.pk = {} \/ this.pk = kind.pk

\* Mutant: additions are joined whatever their methods are.
MergeImportAnyMethod(this, kind, index_exist) ==
  IF this.type \in {"DocumentOperation", "SettingsAndDocumentOperation"}
  THEN Continue([this EXCEPT !.pk = kind.pk])
  ELSE IF this.type = "DocumentDeletion" /\ (index_exist \/ kind.create = {FALSE})
  THEN Continue(BatchOf("DocumentOperation", kind))
  ELSE Stop(this)

\* The arms of accumulate for an addition.
MergeImport(this, kind, index_exist) ==
  IF this.type \in {"DocumentOperation", "SettingsAndDocumentOperation"}
     /\ this.method = kind.method
  THEN Continue([this EXCEPT !.pk = kind.pk])
  ELSE IF this.type = "DocumentDeletion" /\ (index_exist \/ kind.create = {FALSE})
  THEN Continue(BatchOf("DocumentOperation", kind))
  ELSE Stop(this)

\* The arms of accumulate for the kinds that merge.
Merge(this, kind, index_exist) ==
  CASE kind.type = "DocumentClear" ->
         IF this.type \in {"Settings", "ClearAndSettings", "SettingsAndDocumentOperation"}
         THEN Continue([this EXCEPT !.type = "ClearAndSettings", !.pk = {}])
         ELSE Continue([this EXCEPT !.type = "DocumentClear", !.create = {}, !.pk = {}])
    [] kind.type = "DocumentImport" -> MergeImport(this, kind, index_exist)
    [] kind.type = "DocumentDeletion" ->
         IF this.type \in {"DocumentClear", "DocumentOperation", "DocumentDeletion",
                           "ClearAndSettings"}
         THEN Continue(this) ELSE Stop(this)
    [] kind.type = "Settings" ->
         IF this.type \in {"DocumentClear", "DocumentDeletion"} THEN Stop(this)
         ELSE IF this.type = "DocumentOperation"
         THEN Continue(BatchOf("SettingsAndDocumentOperation", this))
         ELSE Continue(this)

\* Mutant: the rights to create the index are not compared.
AccumulateAnyRight(this, kind, index_exist, primary_key) ==
  IF ~PrimaryKeysAgree(this, kind, primary_key) THEN Stop(this)
  ELSE IF kind.type = "IndexDeletion"
  THEN Absorb([this EXCEPT !.type = "IndexDeletion", !.create = {}, !.pk = {}])
  ELSE Merge(this, kind, index_exist)

\* BatchKind::accumulate, after its first arm (see Batchable).
Accumulate(this, kind, index_exist, primary_key) ==
  IF \/ ~index_exist /\ this.create = {FALSE} /\ kind.create = {TRUE}
     \/ ~PrimaryKeysAgree(this, kind, primary_key)
  THEN Stop(this)
  ELSE IF kind.type = "IndexDeletion"
  THEN Absorb([this EXCEPT !.type = "IndexDeletion", !.create = {}, !.pk = {}])
  ELSE Merge(this, kind, index_exist)

Lowest(S)  == CHOOSE t \in S : \A u \in S : t <= u
Highest(S) == CHOOSE t \in S : \A u \in S : u <= t

\* "We don't batch any of these operations": the first arm of accumulate closes
\* the batch before them, and BatchKind::new after them.
Alone == {"IndexCreation", "IndexUpdate", "IndexSwap", "DocumentDeletionByFilter"}

\* Mutant: a task that is never batched is skipped instead of closing the batch.
BatchableAround(T, kinds) ==
  {t \in T : t = Lowest(T) \/ kinds[t].type \notin Alone}

\* What accumulate looks at: the tasks before the first one, other than the
\* lowest, that is never batched.
Batchable(T, kinds) ==
  {t \in T : \A u \in T : u <= t => u = Lowest(T) \/ kinds[u].type \notin Alone}

\* The loop of autobatch: the verdict on each task of T, given the verdict on
\* the task before it.  What comes after a closed batch is not looked at.
Verdicts(T, kinds, index_already_exists, primary_key) ==
  LET first == Lowest(T)
      index_exist == index_already_exists \/ MustCreateIndex(kinds[first])
      verdict[t \in T] ==
        IF t = first THEN BatchKindNew(kinds[first], primary_key)
        ELSE LET before == verdict[Highest({u \in T : u < t})] IN
             IF before.flow # "Continue" THEN Stop(before.batch)
             ELSE Accumulate(before.batch, AutobatchKind(kinds[t]),
                             index_exist, primary_key)
  IN verdict

\* The tasks autobatch takes out of the non-empty T.
BatchIds(T, verdict) ==
  {t \in T : \/ t = Lowest(T)
             \/ /\ verdict[t].flow # "Stop"
                /\ \A u \in T : u < t => verdict[u].flow = "Continue"}

\* autobatch: a first task that closes its batch is returned at once.
Autobatch(enqueued, kinds, index_already_exists, primary_key) ==
  LET first == Lowest(enqueued)
      new == BatchKindNew(kinds[first], primary_key)
      T == Batchable(enqueued, kinds)
      verdict == Verdicts(T, kinds, index_already_exists, primary_key)
  IN [ids    |-> IF new.flow = "Continue" THEN BatchIds(T, verdict) ELSE {first},
      type   |-> IF new.flow = "Continue" THEN verdict[Highest(T)].batch.type
                 ELSE new.batch.type,
      create |-> MustCreateIndex(kinds[first])]
=============================================================================
