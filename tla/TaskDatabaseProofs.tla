------------------------- MODULE TaskDatabaseProofs -------------------------
(* Every transaction of TaskDatabase keeps the databases consistent.        *)
EXTENDS TaskDatabase, TLAPS, WellFoundedInduction

\* A good database is well typed and internally consistent.
Good(d) == d \in Databases /\ InternallyConsistent(d)

\* The empty database, that of a new instance, is good.
LEMMA EmptyGood == Good(EmptyDatabase)
<1>1. EmptyDatabase \in Databases
  BY DEF EmptyDatabase, Databases
<1>2. Stored(EmptyDatabase) = {}
  BY DEF EmptyDatabase, Stored
<1>3. InternallyConsistent(EmptyDatabase)
  BY <1>2 DEF InternallyConsistent, BitmapsConsistent, TasksConsistent, CanceledByConsistent,
              EmptyDatabase
<1> QED
  BY <1>1, <1>3 DEF Good

\* A finished version of an enqueued task: what update_task is called with.
FinishedVersion(old, new) ==
  /\ new \in Tasks
  /\ new.kind = old.kind
  /\ new.status \in Finished /\ new.finished_at
  /\ new.canceled_by # None <=> new.status = "Canceled"

\* update_task keeps the databases consistent when it finishes enqueued tasks.
LEMMA UpdateGood ==
  ASSUME NEW d, Good(d), NEW new, DOMAIN new \subseteq Enqueued(d),
         \A t \in DOMAIN new : FinishedVersion(d.all_tasks[t], new[t])
  PROVE  Good(UpdateTasks(d, new))
<1> DEFINE S == DOMAIN new
           e == UpdateTasks(d, new)
<1>0. /\ d \in Databases /\ BitmapsConsistent(d) /\ TasksConsistent(d)
      /\ CanceledByConsistent(d)
  BY DEF Good, InternallyConsistent
<1>1. \A t \in S : /\ t \in Stored(d) /\ d.all_tasks[t].status = "Enqueued"
                   /\ new[t].status # "Enqueued" /\ new[t] \in Tasks
  BY <1>0 DEF BitmapsConsistent, Enqueued, FinishedVersion, Finished, Statuses
<1>2. e.all_tasks = [t \in TaskIds |-> IF t \in S THEN new[t] ELSE d.all_tasks[t]]
  BY <1>0 DEF UpdateTasks, Databases
<1>3. e.status = [s \in Statuses |->
         (d.status[s] \ {t \in S : s = "Enqueued"}) \cup {t \in S : new[t].status = s}]
  <2>1. {t \in S : d.all_tasks[t].status # new[t].status} = S
    BY <1>1
  <2> QED
    BY <1>0, <1>1, <2>1 DEF UpdateTasks, Databases
<1>4. /\ e.kind = d.kind /\ e.index_tasks = d.index_tasks /\ e.canceled_by = d.canceled_by
      /\ e.enqueued_at = d.enqueued_at /\ e.index_mapping = d.index_mapping
      /\ e.started_at = d.started_at \cup {t \in S : new[t].started_at}
      /\ e.finished_at = d.finished_at \cup {t \in S : new[t].finished_at}
  BY <1>0 DEF UpdateTasks, Databases
<1>5. e \in Databases
  BY <1>0, <1>1 DEF UpdateTasks, Databases, Stored
<1>6. Stored(e) = Stored(d)
  BY <1>1, <1>2, NoneAssumption DEF Stored
<1>7. \A t \in Stored(d) : e.all_tasks[t].kind = d.all_tasks[t].kind
  BY <1>2 DEF FinishedVersion, Stored
<1>8. BitmapsConsistent(e)
  <2>1. \A s \in Statuses : e.status[s] = {t \in Stored(e) : e.all_tasks[t].status = s}
    <3> SUFFICES ASSUME NEW s \in Statuses
                 PROVE  e.status[s] = {t \in Stored(d) : e.all_tasks[t].status = s}
      BY <1>6
    <3>1. d.status[s] = {t \in Stored(d) : d.all_tasks[t].status = s}
      BY <1>0 DEF BitmapsConsistent
    <3>2. \A t \in Stored(d) : t \in TaskIds
      BY DEF Stored
    <3> QED
      BY <1>1, <1>2, <1>3, <3>1, <3>2
  <2>2. /\ \A k \in Kinds : e.kind[k] = {t \in Stored(e) : e.all_tasks[t].kind.type = k}
        /\ \A i \in IndexNames :
             e.index_tasks[i] = {t \in Stored(e) : i \in IndexesOf(e.all_tasks[t].kind)}
        /\ e.enqueued_at = Stored(e)
    BY <1>0, <1>4, <1>6, <1>7 DEF BitmapsConsistent
  <2>3. /\ e.started_at = {t \in Stored(e) : e.all_tasks[t].started_at}
        /\ e.finished_at = {t \in Stored(e) : e.all_tasks[t].finished_at}
    <3>1. \A t \in S : ~d.all_tasks[t].started_at /\ ~d.all_tasks[t].finished_at
      BY <1>0, <1>1 DEF TasksConsistent, Finished
    <3> QED
      BY <1>0, <1>1, <1>2, <1>4, <1>6, <3>1 DEF BitmapsConsistent, Stored
  <2> QED
    BY <2>1, <2>2, <2>3 DEF BitmapsConsistent
<1>9. TasksConsistent(e)
  <2> SUFFICES ASSUME NEW t \in Stored(d)
               PROVE  LET task == e.all_tasks[t] IN
                      /\ task.finished_at <=> task.status \in Finished
                      /\ task.started_at => task.status \in Finished
                      /\ task.canceled_by # None <=> task.status = "Canceled"
                      /\ task.kind.tasks \subseteq 0 .. t - 1
                      /\ OwnFields(task.kind) /\ ValidSwaps(task.kind.swaps)
    BY <1>6 DEF TasksConsistent
  <2>1. CASE t \in S
    BY <1>0, <1>1, <1>2, <2>1 DEF TasksConsistent, FinishedVersion, Stored
  <2>2. CASE t \notin S
    BY <1>0, <1>2, <2>2 DEF TasksConsistent, Stored
  <2> QED
    BY <2>1, <2>2
<1>10. CanceledByConsistent(e)
  <2> SUFFICES ASSUME NEW c \in TaskIds, NEW t \in d.canceled_by[c]
               PROVE  t \in Stored(d) /\ e.all_tasks[t].canceled_by = c
    BY <1>4, <1>6 DEF CanceledByConsistent
  <2>1. t \in Stored(d) /\ d.all_tasks[t].canceled_by = c
    BY <1>0 DEF CanceledByConsistent
  <2>2. t \notin S
    BY <1>0, <1>1, <2>1, NoneAssumption DEF TasksConsistent
  <2> QED
    BY <1>2, <2>1, <2>2 DEF Stored
<1> QED
  BY <1>5, <1>8, <1>9, <1>10 DEF Good, InternallyConsistent

-----------------------------------------------------------------------------
\* A non-empty set of uids has a lowest element: what RoaringBitmap::min returns.
LEMMA LowestExists ==
  ASSUME NEW T \in SUBSET Nat, T # {}
  PROVE  \E t \in T : \A u \in T : t <= u
<1> DEFINE R == OpToRel(<, Nat)
<1>1. \E t \in T : \A u \in T : <<u, t>> \notin R
  BY NatLessThanWellFounded, WFMin
<1>2. \A t, u \in Nat : u < t => <<u, t>> \in R
  BY DEF OpToRel
<1> HIDE DEF R
<1>3. PICK t \in T : \A u \in T : <<u, t>> \notin R
  BY <1>1
<1>4. \A u \in T : u \in Nat /\ t \in Nat /\ ~ (u < t)
  BY <1>2, <1>3
<1>5. \A u \in T : t <= u
  BY <1>4
<1> QED
  BY <1>3, <1>5

\* ... and, uids being bounded, a highest one: RoaringBitmap::max.
LEMMA HighestExists ==
  ASSUME NEW T \in SUBSET TaskIds, T # {}
  PROVE  \E t \in T : \A u \in T : u <= t
<1> DEFINE R == {MaxTasks - t : t \in T}
<1>1. R \in SUBSET Nat /\ R # {}
  <2>1. \A t \in T : MaxTasks - t \in Nat
    BY BoundsAssumption DEF TaskIds
  <2>2. \E t \in T : MaxTasks - t \in R
    OBVIOUS
  <2> QED
    BY <2>1, <2>2
<1>2. PICK r \in R : \A s \in R : r <= s
  BY <1>1, LowestExists
<1>3. PICK t \in T : r = MaxTasks - t
  BY <1>2
<1>4. \A u \in T : MaxTasks - t <= MaxTasks - u
  BY <1>2, <1>3
<1> QED
  BY <1>4, BoundsAssumption DEF TaskIds

\* The uid that register gives out is above every stored one.
LEMMA NextTaskIdFresh ==
  ASSUME NEW d
  PROVE  NextTaskId(d) \in Nat /\ \A t \in Stored(d) : t < NextTaskId(d)
<1>1. CASE Stored(d) = {}
  BY <1>1 DEF NextTaskId
<1>2. CASE Stored(d) # {}
  <2> DEFINE m == CHOOSE t \in Stored(d) : \A u \in Stored(d) : u <= t
  <2>1. Stored(d) \in SUBSET TaskIds
    BY DEF Stored
  <2>2. \E t \in Stored(d) : \A u \in Stored(d) : u <= t
    BY <1>2, <2>1, HighestExists
  <2>3. m \in Stored(d) /\ \A u \in Stored(d) : u <= m
    BY <2>2
  <2>4. NextTaskId(d) = m + 1
    BY <1>2 DEF NextTaskId
  <2> HIDE DEF m
  <2> QED
    BY <2>1, <2>3, <2>4, BoundsAssumption DEF TaskIds
<1> QED
  BY <1>1, <1>2

-----------------------------------------------------------------------------
\* What FilterOutReferencesToNewerTasks returns.
LEMMA FilteredKind ==
  ASSUME NEW kind \in KindWithContent, NEW uid \in Nat
  PROVE  LET k == FilterOutReferencesToNewerTasks(kind, uid) IN
         /\ k \in KindWithContent
         /\ k.type = kind.type /\ k.index = kind.index /\ k.swaps = kind.swaps
         /\ k.file = kind.file
         /\ k.tasks = {t \in kind.tasks : t < uid}
  BY DEF FilterOutReferencesToNewerTasks, KindWithContent

\* register keeps the databases consistent.
LEMMA RegisterGood ==
  ASSUME NEW d, Good(d), NEW kind \in KindWithContent, NextTaskId(d) \in TaskIds,
         OwnFields(kind), ValidSwaps(kind.swaps)
  PROVE  Good(RegisterTask(d, kind))
<1> DEFINE uid == NextTaskId(d)
           k == FilterOutReferencesToNewerTasks(kind, uid)
           task == [kind |-> k, status |-> "Enqueued", canceled_by |-> None,
                    started_at |-> FALSE, finished_at |-> FALSE]
           e == RegisterTask(d, kind)
<1>0. /\ d \in Databases /\ BitmapsConsistent(d) /\ TasksConsistent(d)
      /\ CanceledByConsistent(d)
  BY DEF Good, InternallyConsistent
<1>1. /\ k \in KindWithContent /\ k.type \in Kinds
      /\ k.tasks \subseteq 0 .. uid - 1
      /\ OwnFields(k) /\ ValidSwaps(k.swaps)
  <2>1. uid \in Nat
    BY NextTaskIdFresh
  <2>2. kind.tasks \subseteq Nat
    BY BoundsAssumption DEF KindWithContent, TaskIds
  <2> HIDE DEF uid
  <2>3. /\ k \in KindWithContent
        /\ k.type = kind.type /\ k.index = kind.index /\ k.swaps = kind.swaps
        /\ k.tasks = {t \in kind.tasks : t < uid}
    BY <2>1, FilteredKind
  <2>4. k.type \in Kinds
    BY <2>3 DEF KindWithContent
  <2> QED
    BY <2>1, <2>2, <2>3, <2>4 DEF OwnFields
<1>2. task \in Tasks
  BY <1>1 DEF Tasks, Statuses
<1>3. uid \in TaskIds /\ uid \notin Stored(d) /\ \A t \in Stored(d) : t \in TaskIds /\ t # uid
  BY NextTaskIdFresh, BoundsAssumption DEF Stored, TaskIds
<1>4. /\ e.all_tasks = [d.all_tasks EXCEPT ![uid] = task]
      /\ e.status = [d.status EXCEPT !["Enqueued"] = @ \cup {uid}]
      /\ e.kind = [d.kind EXCEPT ![k.type] = @ \cup {uid}]
      /\ e.index_tasks = [i \in IndexNames |->
           IF i \in IndexesOf(k) THEN d.index_tasks[i] \cup {uid} ELSE d.index_tasks[i]]
      /\ e.enqueued_at = d.enqueued_at \cup {uid}
      /\ e.started_at = d.started_at /\ e.finished_at = d.finished_at
      /\ e.canceled_by = d.canceled_by /\ e.index_mapping = d.index_mapping
  BY DEF RegisterTask
<1> HIDE DEF uid, k
<1>5. e \in Databases
  <2>1. e = [all_tasks |-> e.all_tasks, status |-> e.status, kind |-> e.kind,
             index_tasks |-> e.index_tasks, canceled_by |-> e.canceled_by,
             enqueued_at |-> e.enqueued_at, started_at |-> e.started_at,
             finished_at |-> e.finished_at, index_mapping |-> e.index_mapping]
    BY DEF RegisterTask
  <2> HIDE DEF e, task
  <2>2. e.all_tasks \in [TaskIds -> Tasks \cup {None}]
    BY <1>0, <1>2, <1>3, <1>4 DEF Databases
  <2>3. e.status \in [Statuses -> SUBSET TaskIds]
    BY <1>0, <1>3, <1>4 DEF Databases, Statuses
  <2>4. e.kind \in [Kinds -> SUBSET TaskIds]
    BY <1>0, <1>1, <1>3, <1>4 DEF Databases
  <2>5. e.index_tasks \in [IndexNames -> SUBSET TaskIds]
    BY <1>0, <1>3, <1>4 DEF Databases
  <2>6. e.enqueued_at \in SUBSET TaskIds
    BY <1>0, <1>3, <1>4 DEF Databases
  <2>7. /\ e.canceled_by \in [TaskIds -> SUBSET TaskIds]
        /\ e.started_at \in SUBSET TaskIds /\ e.finished_at \in SUBSET TaskIds
        /\ e.index_mapping \in [IndexNames -> TaskIds \cup {None}]
    BY <1>0, <1>4 DEF Databases
  <2> QED
    BY <2>1, <2>2, <2>3, <2>4, <2>5, <2>6, <2>7 DEF Databases
<1> HIDE DEF e
<1>6. /\ e.all_tasks[uid] = task
      /\ \A t \in Stored(d) : e.all_tasks[t] = d.all_tasks[t]
      /\ Stored(e) = Stored(d) \cup {uid}
  <2>1. d.all_tasks \in [TaskIds -> Tasks \cup {None}]
    BY <1>0 DEF Databases
  <2> HIDE DEF task
  <2> QED
    BY <1>2, <1>3, <1>4, <2>1, NoneAssumption DEF Stored
<1>7. BitmapsConsistent(e)
  <2>1. \A s \in Statuses : e.status[s] = {t \in Stored(e) : e.all_tasks[t].status = s}
    BY <1>0, <1>3, <1>4, <1>6 DEF BitmapsConsistent, Databases, Statuses
  <2>2. \A x \in Kinds : e.kind[x] = {t \in Stored(e) : e.all_tasks[t].kind.type = x}
    BY <1>0, <1>1, <1>3, <1>4, <1>6 DEF BitmapsConsistent, Databases
  <2>3. \A i \in IndexNames :
          e.index_tasks[i] = {t \in Stored(e) : i \in IndexesOf(e.all_tasks[t].kind)}
    BY <1>0, <1>3, <1>4, <1>6 DEF BitmapsConsistent
  <2>4. /\ e.enqueued_at = Stored(e)
        /\ e.started_at = {t \in Stored(e) : e.all_tasks[t].started_at}
        /\ e.finished_at = {t \in Stored(e) : e.all_tasks[t].finished_at}
    BY <1>0, <1>3, <1>4, <1>6 DEF BitmapsConsistent
  <2> QED
    BY <2>1, <2>2, <2>3, <2>4 DEF BitmapsConsistent
<1>8. TasksConsistent(e)
  BY <1>0, <1>1, <1>3, <1>6 DEF TasksConsistent, Finished
<1>9. CanceledByConsistent(e)
  BY <1>0, <1>4, <1>6 DEF CanceledByConsistent
<1> QED
  BY <1>5, <1>7, <1>8, <1>9 DEF e, Good, InternallyConsistent

-----------------------------------------------------------------------------
\* A canceled task is a finished version of the enqueued one.
LEMMA CanceledVersions ==
  ASSUME NEW d, Good(d), NEW c \in TaskIds, NEW matched, NEW previous
  PROVE  LET new == CanceledTasks(d, c, matched, previous) IN
         /\ DOMAIN new = TasksToCancel(d, matched)
         /\ DOMAIN new \subseteq Enqueued(d)
         /\ DOMAIN new \subseteq TaskIds
         /\ \A t \in DOMAIN new : /\ FinishedVersion(d.all_tasks[t], new[t])
                                  /\ new[t].canceled_by = c /\ new[t].status = "Canceled"
<1> DEFINE S == TasksToCancel(d, matched)
           new == CanceledTasks(d, c, matched, previous)
<1>0. d \in Databases /\ BitmapsConsistent(d)
  BY DEF Good, InternallyConsistent
<1>1. \A t \in S : /\ t \in Enqueued(d) /\ t \in TaskIds
                   /\ d.all_tasks[t] \in Tasks
  BY <1>0 DEF TasksToCancel, Enqueued, BitmapsConsistent, Statuses, Stored, Databases
<1>2. DOMAIN new = S
  BY DEF CanceledTasks
<1>3. ASSUME NEW t \in S
      PROVE  /\ FinishedVersion(d.all_tasks[t], new[t])
             /\ new[t].canceled_by = c /\ new[t].status = "Canceled"
  <2>1. new[t] = [kind |-> d.all_tasks[t].kind, status |-> "Canceled", canceled_by |-> c,
                  started_at |-> d.all_tasks[t].started_at \/ t \in previous,
                  finished_at |-> TRUE]
    BY DEF CanceledTasks, Finish
  <2>2. d.all_tasks[t].kind \in KindWithContent /\ c # None
    BY <1>1, NoneAssumption DEF Tasks
  <2>3. (d.all_tasks[t].started_at \/ t \in previous) \in BOOLEAN
    OBVIOUS
  <2> HIDE DEF new
  <2>4. new[t] \in Tasks
    BY <2>1, <2>2, <2>3 DEF Tasks, Statuses
  <2> QED
    BY <2>1, <2>2, <2>4 DEF FinishedVersion, Finished, Statuses
<1> QED
  BY <1>1, <1>2, <1>3

\* cancel_matched_tasks keeps the databases consistent, whichever tasks are
\* matched and were processing, and whether or not it was run before.
LEMMA CancelGood ==
  ASSUME NEW d, Good(d), NEW c \in TaskIds, NEW matched, NEW previous
  PROVE  Good(CancelMatchedTasks(d, c, matched, previous))
<1> DEFINE S == TasksToCancel(d, matched)
           new == CanceledTasks(d, c, matched, previous)
           u == UpdateTasks(d, new)
           e == CancelMatchedTasks(d, c, matched, previous)
<1>1. /\ DOMAIN new = S /\ S \subseteq Enqueued(d) /\ S \subseteq TaskIds
      /\ \A t \in S : FinishedVersion(d.all_tasks[t], new[t]) /\ new[t].canceled_by = c
  BY CanceledVersions
<1>2. e = [u EXCEPT !.canceled_by = [u.canceled_by EXCEPT ![c] = S]]
  BY DEF CancelMatchedTasks
<1> HIDE DEF new, S, e
<1>3. Good(u)
  BY <1>1, UpdateGood
<1>4. u \in Databases /\ BitmapsConsistent(u) /\ TasksConsistent(u) /\ CanceledByConsistent(u)
  BY <1>3 DEF Good, InternallyConsistent
<1>5. \A t \in S : t \in Stored(u) /\ u.all_tasks[t].canceled_by = c
  <2>1. \A t \in S : u.all_tasks[t] = new[t]
    BY <1>1 DEF UpdateTasks
  <2>2. \A t \in S : new[t] \in Tasks
    BY <1>1 DEF FinishedVersion
  <2> HIDE DEF u
  <2> QED
    BY <1>1, <2>1, <2>2, NoneAssumption DEF Stored
<1> HIDE DEF u
<1>6. /\ e \in Databases
      /\ e.all_tasks = u.all_tasks /\ e.status = u.status /\ e.kind = u.kind
      /\ e.index_tasks = u.index_tasks /\ e.enqueued_at = u.enqueued_at
      /\ e.started_at = u.started_at /\ e.finished_at = u.finished_at
      /\ e.canceled_by = [u.canceled_by EXCEPT ![c] = S]
  <2>1. [u.canceled_by EXCEPT ![c] = S] \in [TaskIds -> SUBSET TaskIds]
    BY <1>1, <1>4 DEF Databases
  <2> QED
    BY <1>2, <1>4, <2>1 DEF Databases
<1>7. Stored(e) = Stored(u)
  BY <1>6 DEF Stored
<1>8. BitmapsConsistent(e) /\ TasksConsistent(e)
  BY <1>4, <1>6, <1>7 DEF BitmapsConsistent, TasksConsistent
<1>9. CanceledByConsistent(e)
  BY <1>4, <1>5, <1>6, <1>7 DEF CanceledByConsistent, Databases
<1> QED
  BY <1>6, <1>8, <1>9 DEF e, Good, InternallyConsistent

-----------------------------------------------------------------------------
\* delete_matched_tasks keeps the databases consistent although it only rewrites
\* the bitmaps it believes to be affected.
LEMMA DeleteGood ==
  ASSUME NEW d, Good(d), NEW matched, NEW processing
  PROVE  Good(DeleteMatchedTasks(d, matched, processing))
<1> DEFINE S == TasksToDelete(d, matched, processing)
           e == DeleteMatchedTasks(d, matched, processing)
<1>0. /\ d \in Databases /\ BitmapsConsistent(d) /\ CanceledByConsistent(d)
      /\ TasksConsistent(d)
  BY DEF Good, InternallyConsistent
<1>1. S \subseteq Stored(d) /\ Stored(d) \subseteq TaskIds
  BY <1>0 DEF TasksToDelete, AllTaskIds, BitmapsConsistent, Stored
<1>2. /\ e.all_tasks = [t \in TaskIds |-> IF t \in S THEN None ELSE d.all_tasks[t]]
      /\ e.index_tasks = [i \in IndexNames |->
           IF i \in UNION {IndexesOf(d.all_tasks[t].kind) : t \in S}
           THEN d.index_tasks[i] \ S ELSE d.index_tasks[i]]
      /\ e.status = [s \in Statuses |-> IF s \in {d.all_tasks[t].status : t \in S}
                                        THEN d.status[s] \ S ELSE d.status[s]]
      /\ e.kind = [k \in Kinds |-> IF k \in {d.all_tasks[t].kind.type : t \in S}
                                   THEN d.kind[k] \ S ELSE d.kind[k]]
      /\ e.canceled_by = [c \in TaskIds |->
           IF c \in {d.all_tasks[t].canceled_by : t \in S} \ {None}
           THEN d.canceled_by[c] \ S ELSE d.canceled_by[c]]
      /\ e.enqueued_at = d.enqueued_at \ S
      /\ e.started_at = d.started_at \ {t \in S : d.all_tasks[t].started_at}
      /\ e.finished_at = d.finished_at \ {t \in S : d.all_tasks[t].finished_at}
      /\ e.index_mapping = d.index_mapping
      /\ e = [all_tasks |-> e.all_tasks, status |-> e.status, kind |-> e.kind,
              index_tasks |-> e.index_tasks, canceled_by |-> e.canceled_by,
              enqueued_at |-> e.enqueued_at, started_at |-> e.started_at,
              finished_at |-> e.finished_at, index_mapping |-> e.index_mapping]
  BY DEF DeleteMatchedTasks
<1> HIDE DEF e, S
<1>3. e \in Databases
  <2>1. /\ e.all_tasks \in [TaskIds -> Tasks \cup {None}]
        /\ e.index_tasks \in [IndexNames -> SUBSET TaskIds]
        /\ e.index_mapping \in [IndexNames -> TaskIds \cup {None}]
    BY <1>0, <1>2 DEF Databases
  <2>2. /\ e.status \in [Statuses -> SUBSET TaskIds]
        /\ e.kind \in [Kinds -> SUBSET TaskIds]
        /\ e.canceled_by \in [TaskIds -> SUBSET TaskIds]
    BY <1>0, <1>2 DEF Databases
  <2>3. /\ e.enqueued_at \in SUBSET TaskIds /\ e.started_at \in SUBSET TaskIds
        /\ e.finished_at \in SUBSET TaskIds
    BY <1>0, <1>2 DEF Databases
  <2> QED
    BY <1>2, <2>1, <2>2, <2>3 DEF Databases
<1>4. /\ Stored(e) = Stored(d) \ S
      /\ \A t \in Stored(e) : e.all_tasks[t] = d.all_tasks[t]
  BY <1>1, <1>2 DEF Stored
<1>5. BitmapsConsistent(e)
  <2>1. \A s \in Statuses : e.status[s] = {t \in Stored(e) : e.all_tasks[t].status = s}
    BY <1>0, <1>1, <1>2, <1>4 DEF BitmapsConsistent
  <2>2. \A k \in Kinds : e.kind[k] = {t \in Stored(e) : e.all_tasks[t].kind.type = k}
    BY <1>0, <1>1, <1>2, <1>4 DEF BitmapsConsistent
  <2>3. \A i \in IndexNames :
          e.index_tasks[i] = {t \in Stored(e) : i \in IndexesOf(e.all_tasks[t].kind)}
    BY <1>0, <1>1, <1>2, <1>4 DEF BitmapsConsistent
  <2>4. /\ e.enqueued_at = Stored(e)
        /\ e.started_at = {t \in Stored(e) : e.all_tasks[t].started_at}
        /\ e.finished_at = {t \in Stored(e) : e.all_tasks[t].finished_at}
    BY <1>0, <1>1, <1>2, <1>4 DEF BitmapsConsistent
  <2> QED
    BY <2>1, <2>2, <2>3, <2>4 DEF BitmapsConsistent
<1>6. TasksConsistent(e)
  BY <1>0, <1>4 DEF TasksConsistent
<1>7. CanceledByConsistent(e)
  <2> SUFFICES ASSUME NEW c \in TaskIds, NEW t \in e.canceled_by[c]
               PROVE  t \in Stored(e) /\ e.all_tasks[t].canceled_by = c
    BY DEF CanceledByConsistent
  <2>1. t \in d.canceled_by[c]
    BY <1>2
  <2>2. t \in Stored(d) /\ d.all_tasks[t].canceled_by = c
    BY <1>0, <2>1 DEF CanceledByConsistent
  <2>3. t \notin S
    BY <1>2, <2>2, NoneAssumption
  <2> QED
    BY <1>4, <2>2, <2>3
<1> QED
  BY <1>3, <1>5, <1>6, <1>7 DEF e, Good, InternallyConsistent

-----------------------------------------------------------------------------
\* Valid swaps rename by an involution: doing them again undoes them.
LEMMA SwappedInvolution ==
  ASSUME NEW swaps \in SUBSET (IndexNames \X IndexNames), ValidSwaps(swaps)
  PROVE  \A i \in IndexNames :
           /\ Swapped(swaps, i) \in IndexNames
           /\ Swapped(swaps, Swapped(swaps, i)) = i
           /\ i \in SwapNames(swaps) => Swapped(swaps, i) \in SwapNames(swaps)
           /\ i \notin SwapNames(swaps) => Swapped(swaps, i) = i
<1>1. \A p \in swaps : p = <<p[1], p[2]>> /\ p[1] \in IndexNames /\ p[2] \in IndexNames
  OBVIOUS
<1>2. \A p, q \in swaps :
        /\ p[1] # p[2]
        /\ p[1] = q[1] \/ p[1] = q[2] \/ p[2] = q[1] \/ p[2] = q[2] => p = q
  <2> SUFFICES ASSUME NEW p \in swaps, NEW q \in swaps
               PROVE  /\ p[1] # p[2]
                      /\ p[1] = q[1] \/ p[1] = q[2] \/ p[2] = q[1] \/ p[2] = q[2] => p = q
    OBVIOUS
  <2>1. p[1] # p[2] /\ (q # p => {p[1], p[2]} \cap {q[1], q[2]} = {})
    BY DEF ValidSwaps
  <2> QED
    BY <2>1
<1>3. ASSUME NEW p \in swaps
      PROVE  Swapped(swaps, p[1]) = p[2] /\ Swapped(swaps, p[2]) = p[1]
  <2>1. (CHOOSE q \in swaps : q[1] = p[1]) = p
    BY <1>2
  <2>2. Swapped(swaps, p[1]) = p[2]
    BY <2>1 DEF Swapped
  <2>3. ~ \E q \in swaps : q[1] = p[2]
    BY <1>2
  <2>4. (CHOOSE q \in swaps : q[2] = p[2]) = p
    BY <1>2
  <2>5. Swapped(swaps, p[2]) = p[1]
    BY <2>3, <2>4 DEF Swapped
  <2> QED
    BY <2>2, <2>5
<1>4. ASSUME NEW i \in IndexNames
      PROVE  /\ Swapped(swaps, i) \in IndexNames
             /\ Swapped(swaps, Swapped(swaps, i)) = i
             /\ i \in SwapNames(swaps) => Swapped(swaps, i) \in SwapNames(swaps)
             /\ i \notin SwapNames(swaps) => Swapped(swaps, i) = i
  <2>1. CASE i \in SwapNames(swaps)
    <3>1. PICK p \in swaps : i = p[1] \/ i = p[2]
      BY <2>1 DEF SwapNames
    <3>2. p[1] \in SwapNames(swaps) /\ p[2] \in SwapNames(swaps)
      BY DEF SwapNames
    <3> QED
      BY <1>1, <1>3, <2>1, <3>1, <3>2
  <2>2. CASE i \notin SwapNames(swaps)
    <3>1. ~ (\E p \in swaps : p[1] = i) /\ ~ (\E p \in swaps : p[2] = i)
      BY <2>2 DEF SwapNames
    <3>2. Swapped(swaps, i) = i
      BY <3>1 DEF Swapped
    <3> QED
      BY <2>2, <3>2
  <2> QED
    BY <2>1, <2>2
<1> QED
  BY <1>4

\* The fields of a task that swap_index_uid_in_task changes, and no other.
LEMMA SwappedTask ==
  ASSUME NEW task \in Tasks, NEW swaps
  PROVE  LET new == SwapIndexUidInTask(task, swaps) IN
         /\ new.status = task.status /\ new.canceled_by = task.canceled_by
         /\ new.started_at = task.started_at /\ new.finished_at = task.finished_at
         /\ new.kind.type = task.kind.type /\ new.kind.tasks = task.kind.tasks
         /\ new.kind.index = IF task.kind.index = None THEN None
                             ELSE Swapped(swaps, task.kind.index)
         /\ new.kind.swaps = {<<Swapped(swaps, p[1]), Swapped(swaps, p[2])>> :
                                p \in task.kind.swaps}
  BY DEF SwapIndexUidInTask, Tasks, KindWithContent

\* A renamed task is still a task, its indexes are the renamed ones, and its
\* swaps are still valid.
LEMMA SwappedTaskFacts ==
  ASSUME NEW task \in Tasks, NEW swaps \in SUBSET (IndexNames \X IndexNames),
         ValidSwaps(swaps)
  PROVE  LET new == SwapIndexUidInTask(task, swaps) IN
         /\ new \in Tasks
         /\ \A i \in IndexNames : i \in IndexesOf(new.kind)
              <=> Swapped(swaps, i) \in IndexesOf(task.kind)
         /\ OwnFields(task.kind) => OwnFields(new.kind)
         /\ ValidSwaps(task.kind.swaps) => ValidSwaps(new.kind.swaps)
<1> DEFINE new == SwapIndexUidInTask(task, swaps)
           F(i) == Swapped(swaps, i)
<1>1. \A i \in IndexNames : F(i) \in IndexNames /\ F(F(i)) = i
  BY SwappedInvolution
<1>2. /\ task.kind.index \in IndexNames \cup {None}
      /\ \A p \in task.kind.swaps : p = <<p[1], p[2]>> /\ p[1] \in IndexNames /\ p[2] \in IndexNames
      /\ task.kind \in KindWithContent
  BY DEF Tasks, KindWithContent
<1>3. /\ new.kind.type = task.kind.type
      /\ new.kind.index = IF task.kind.index = None THEN None ELSE F(task.kind.index)
      /\ new.kind.swaps = {<<F(p[1]), F(p[2])>> : p \in task.kind.swaps}
  BY SwappedTask
<1> HIDE DEF F
<1>4. new \in Tasks
  <2>1. new.kind.index \in IndexNames \cup {None}
    BY <1>1, <1>2, <1>3
  <2>2. new.kind.swaps \in SUBSET (IndexNames \X IndexNames)
    BY <1>1, <1>2, <1>3
  <2> DEFINE x == IF task.kind.index = None THEN None ELSE Swapped(swaps, task.kind.index)
             y == {<<Swapped(swaps, p[1]), Swapped(swaps, p[2])>> : p \in task.kind.swaps}
             k == [task.kind EXCEPT !.index = x, !.swaps = y]
  <2>3. x \in IndexNames \cup {None} /\ y \in SUBSET (IndexNames \X IndexNames)
    BY <1>3, <2>1, <2>2 DEF F
  <2>4. new = [kind |-> k, status |-> task.status, canceled_by |-> task.canceled_by,
               started_at |-> task.started_at, finished_at |-> task.finished_at]
    BY DEF SwapIndexUidInTask
  <2> HIDE DEF x, y
  <2>5. k \in KindWithContent
    BY <1>2, <2>3 DEF KindWithContent
  <2> HIDE DEF k, new
  <2> QED
    BY <2>4, <2>5 DEF Tasks
<1>5. \A i \in IndexNames : i \in IndexesOf(new.kind) <=> F(i) \in IndexesOf(task.kind)
  <2> SUFFICES ASSUME NEW i \in IndexNames
               PROVE  i \in IndexesOf(new.kind) <=> F(i) \in IndexesOf(task.kind)
    OBVIOUS
  <2> HIDE DEF new
  <2>1. CASE task.kind.type # "IndexSwap"
    BY <1>1, <1>2, <1>3, <2>1, NoneAssumption DEF IndexesOf
  <2>2. CASE task.kind.type = "IndexSwap"
    <3>1. /\ i \in IndexesOf(new.kind) <=>
               \E p \in task.kind.swaps : i = F(p[1]) \/ i = F(p[2])
          /\ F(i) \in IndexesOf(task.kind) <=>
               \E p \in task.kind.swaps : F(i) = p[1] \/ F(i) = p[2]
      <4>1. IndexesOf(new.kind) = SwapNames(new.kind.swaps)
        BY <1>3, <2>2 DEF IndexesOf
      <4>2. i \in SwapNames(new.kind.swaps) <=>
              \E q \in new.kind.swaps : i = q[1] \/ i = q[2]
        BY DEF SwapNames
      <4>3. (\E q \in new.kind.swaps : i = q[1] \/ i = q[2]) <=>
              \E p \in task.kind.swaps : i = F(p[1]) \/ i = F(p[2])
        <5>1. \A p \in task.kind.swaps : <<F(p[1]), F(p[2])>> \in new.kind.swaps
          BY <1>3
        <5>2. \A q \in new.kind.swaps : \E p \in task.kind.swaps : q[1] = F(p[1]) /\ q[2] = F(p[2])
          BY <1>3
        <5>3. \A p \in task.kind.swaps :
                /\ <<F(p[1]), F(p[2])>>[1] = F(p[1])
                /\ <<F(p[1]), F(p[2])>>[2] = F(p[2])
          OBVIOUS
        <5> QED
          BY <5>1, <5>2, <5>3
      <4>4. F(i) \in IndexesOf(task.kind) <=>
              \E p \in task.kind.swaps : F(i) = p[1] \/ F(i) = p[2]
        BY <2>2 DEF IndexesOf, SwapNames
      <4> QED
        BY <4>1, <4>2, <4>3, <4>4
    <3>2. ASSUME NEW p \in task.kind.swaps
          PROVE  /\ i = F(p[1]) <=> F(i) = p[1]
                 /\ i = F(p[2]) <=> F(i) = p[2]
      <4>1. p[1] \in IndexNames /\ p[2] \in IndexNames
        BY <1>2
      <4> QED
        BY <1>1, <4>1
    <3> QED
      BY <3>1, <3>2
  <2> QED
    BY <2>1, <2>2
<1>6. ASSUME ValidSwaps(task.kind.swaps) PROVE ValidSwaps(new.kind.swaps)
  <2> SUFFICES ASSUME NEW p \in new.kind.swaps
               PROVE  /\ p[1] # p[2]
                      /\ \A q \in new.kind.swaps \ {p} : {p[1], p[2]} \cap {q[1], q[2]} = {}
    BY DEF ValidSwaps
  <2>1. PICK r \in task.kind.swaps : p = <<F(r[1]), F(r[2])>>
    BY <1>3
  <2>2. r[1] # r[2]
    BY <1>6 DEF ValidSwaps
  <2>3. p[1] # p[2]
    BY <1>1, <1>2, <2>1, <2>2
  <2>4. ASSUME NEW q \in new.kind.swaps, q # p
        PROVE  {p[1], p[2]} \cap {q[1], q[2]} = {}
    <3>1. PICK s \in task.kind.swaps : q = <<F(s[1]), F(s[2])>>
      BY <1>3
    <3>2. s # r
      BY <2>1, <2>4, <3>1
    <3>3. {r[1], r[2]} \cap {s[1], s[2]} = {}
      BY <1>6, <3>2 DEF ValidSwaps
    <3>4. r[1] # s[1] /\ r[1] # s[2] /\ r[2] # s[1] /\ r[2] # s[2]
      BY <3>3
    <3>5. p[1] # q[1] /\ p[1] # q[2] /\ p[2] # q[1] /\ p[2] # q[2]
      BY <1>1, <1>2, <2>1, <3>1, <3>4
    <3> QED
      BY <3>5
  <2> QED
    BY <2>3, <2>4
<1>7. ASSUME OwnFields(task.kind) PROVE OwnFields(new.kind)
  <2> HIDE DEF new
  <2>1. new.kind.index = None <=> task.kind.index = None
    BY <1>1, <1>2, <1>3, NoneAssumption
  <2>2. task.kind.swaps = {} => new.kind.swaps = {}
    BY <1>3
  <2> QED
    BY <1>3, <1>7, <2>1, <2>2 DEF OwnFields
<1> QED
  BY <1>4, <1>5, <1>6, <1>7 DEF F

\* The swaps of a task keep the databases consistent: the tasks older than the
\* swap change their bitmaps of index tasks exactly as they change their names.
LEMMA SwapGood ==
  ASSUME NEW d, Good(d), NEW task_id \in TaskIds,
         NEW swaps \in SUBSET (IndexNames \X IndexNames), ValidSwaps(swaps)
  PROVE  Good(ApplyIndexSwaps(d, task_id, swaps))
<1> DEFINE N == SwapNames(swaps)
           F(i) == Swapped(swaps, i)
           Older(i) == {t \in d.index_tasks[i] : t < task_id}
           Renamed == UNION {Older(i) : i \in N}
           e == ApplyIndexSwaps(d, task_id, swaps)
<1>0. /\ d \in Databases /\ BitmapsConsistent(d) /\ CanceledByConsistent(d)
      /\ TasksConsistent(d)
  BY DEF Good, InternallyConsistent
<1>1. /\ e.all_tasks = [t \in TaskIds |-> IF t \in Renamed
                          THEN SwapIndexUidInTask(d.all_tasks[t], swaps) ELSE d.all_tasks[t]]
      /\ e.index_tasks = [i \in IndexNames |->
           IF i \in N THEN (d.index_tasks[i] \ Older(i)) \cup Older(F(i))
           ELSE d.index_tasks[i]]
      /\ e.index_mapping = [i \in IndexNames |-> d.index_mapping[F(i)]]
      /\ e.status = d.status /\ e.kind = d.kind /\ e.canceled_by = d.canceled_by
      /\ e.enqueued_at = d.enqueued_at /\ e.started_at = d.started_at
      /\ e.finished_at = d.finished_at
      /\ e = [all_tasks |-> e.all_tasks, status |-> e.status, kind |-> e.kind,
              index_tasks |-> e.index_tasks, canceled_by |-> e.canceled_by,
              enqueued_at |-> e.enqueued_at, started_at |-> e.started_at,
              finished_at |-> e.finished_at, index_mapping |-> e.index_mapping]
  BY DEF ApplyIndexSwaps
<1>2. /\ \A i \in IndexNames : F(i) \in IndexNames /\ F(F(i)) = i
      /\ \A i \in IndexNames : i \in N => F(i) \in N
      /\ \A i \in IndexNames : i \notin N => F(i) = i
  BY SwappedInvolution
<1>3. N \subseteq IndexNames
  BY DEF SwapNames
<1>4. \A i \in IndexNames : \A t : t \in Older(i) <=>
        t \in Stored(d) /\ i \in IndexesOf(d.all_tasks[t].kind) /\ t < task_id
  BY <1>0 DEF BitmapsConsistent
<1>5. /\ Renamed \subseteq Stored(d) /\ Stored(d) \subseteq TaskIds
      /\ \A t \in Stored(d) : d.all_tasks[t] \in Tasks
  <2>1. Renamed \subseteq Stored(d)
    BY <1>3, <1>4
  <2> QED
    BY <1>0, <2>1 DEF Stored, Databases
<1>6. \A t \in Renamed :
        LET new == SwapIndexUidInTask(d.all_tasks[t], swaps) IN
        /\ e.all_tasks[t] = new /\ new \in Tasks
        /\ new.status = d.all_tasks[t].status
        /\ new.canceled_by = d.all_tasks[t].canceled_by
        /\ new.started_at = d.all_tasks[t].started_at
        /\ new.finished_at = d.all_tasks[t].finished_at
        /\ new.kind.type = d.all_tasks[t].kind.type
        /\ new.kind.tasks = d.all_tasks[t].kind.tasks
        /\ \A i \in IndexNames : i \in IndexesOf(new.kind)
             <=> F(i) \in IndexesOf(d.all_tasks[t].kind)
        /\ OwnFields(d.all_tasks[t].kind) => OwnFields(new.kind)
        /\ ValidSwaps(d.all_tasks[t].kind.swaps) => ValidSwaps(new.kind.swaps)
  <2> SUFFICES ASSUME NEW t \in Renamed
               PROVE  LET new == SwapIndexUidInTask(d.all_tasks[t], swaps) IN
        /\ e.all_tasks[t] = new /\ new \in Tasks
        /\ new.status = d.all_tasks[t].status
        /\ new.canceled_by = d.all_tasks[t].canceled_by
        /\ new.started_at = d.all_tasks[t].started_at
        /\ new.finished_at = d.all_tasks[t].finished_at
        /\ new.kind.type = d.all_tasks[t].kind.type
        /\ new.kind.tasks = d.all_tasks[t].kind.tasks
        /\ \A i \in IndexNames : i \in IndexesOf(new.kind)
             <=> F(i) \in IndexesOf(d.all_tasks[t].kind)
        /\ OwnFields(d.all_tasks[t].kind) => OwnFields(new.kind)
        /\ ValidSwaps(d.all_tasks[t].kind.swaps) => ValidSwaps(new.kind.swaps)
    OBVIOUS
  <2>1. t \in TaskIds /\ d.all_tasks[t] \in Tasks
    BY <1>5
  <2> HIDE DEF Renamed, e
  <2>2. e.all_tasks[t] = SwapIndexUidInTask(d.all_tasks[t], swaps)
    BY <1>1, <2>1
  <2> QED
    BY <2>1, <2>2, SwappedTask, SwappedTaskFacts
<1> HIDE DEF N, F, Renamed, e
<1>7. \A t \in Stored(d) \ Renamed : e.all_tasks[t] = d.all_tasks[t]
  BY <1>1, <1>5
<1>8. Stored(e) = Stored(d)
  BY <1>1, <1>5, <1>6, NoneAssumption DEF Stored
<1>9. e \in Databases
  <2>1. e.all_tasks \in [TaskIds -> Tasks \cup {None}]
    <3>1. \A t \in Renamed : SwapIndexUidInTask(d.all_tasks[t], swaps) \in Tasks
      BY <1>6
    <3>2. \A t \in TaskIds : d.all_tasks[t] \in Tasks \cup {None}
      BY <1>0 DEF Databases
    <3> QED
      BY <1>1, <3>1, <3>2
  <2>2. e.index_tasks \in [IndexNames -> SUBSET TaskIds]
    BY <1>0, <1>1, <1>2 DEF Databases
  <2>3. e.index_mapping \in [IndexNames -> TaskIds \cup {None}]
    BY <1>0, <1>1, <1>2 DEF Databases
  <2> QED
    BY <1>0, <1>1, <2>1, <2>2, <2>3 DEF Databases
<1>10. BitmapsConsistent(e)
  <2>1. \A t \in Stored(d) : /\ e.all_tasks[t].status = d.all_tasks[t].status
                             /\ e.all_tasks[t].started_at = d.all_tasks[t].started_at
                             /\ e.all_tasks[t].finished_at = d.all_tasks[t].finished_at
                             /\ e.all_tasks[t].kind.type = d.all_tasks[t].kind.type
    BY <1>6, <1>7
  <2>2. ASSUME NEW i \in IndexNames
        PROVE  e.index_tasks[i] = {t \in Stored(d) : i \in IndexesOf(e.all_tasks[t].kind)}
    <3>1. \A t : t \in d.index_tasks[i] <=>
                   t \in Stored(d) /\ i \in IndexesOf(d.all_tasks[t].kind)
      BY <1>0 DEF BitmapsConsistent
    <3>2. \A t : t \in Renamed <=> \E j \in N : t \in Older(j)
      BY DEF Renamed
    <3>3. ASSUME NEW t
          PROVE  t \in e.index_tasks[i] <=>
                   t \in Stored(d) /\ i \in IndexesOf(e.all_tasks[t].kind)
      <4>1. CASE t \in Renamed
        <5>1. t \in Stored(d) /\ t < task_id
          BY <1>3, <1>4, <3>2, <4>1
        <5>2. i \in IndexesOf(e.all_tasks[t].kind) <=> F(i) \in IndexesOf(d.all_tasks[t].kind)
          BY <1>6, <4>1
        <5>3. CASE i \in N
          BY <1>1, <1>2, <1>4, <3>1, <5>1, <5>2, <5>3
        <5>4. CASE i \notin N
          BY <1>1, <1>2, <3>1, <5>1, <5>2, <5>4
        <5> QED
          BY <5>3, <5>4
      <4>2. CASE t \notin Renamed
        <5>1. t \in Stored(d) => e.all_tasks[t] = d.all_tasks[t]
          BY <1>7, <4>2
        <5>2. i \in N => t \notin Older(i) /\ t \notin Older(F(i))
          BY <1>2, <3>2, <4>2
        <5> HIDE DEF Older
        <5> QED
          BY <1>1, <3>1, <5>1, <5>2
      <4> QED
        BY <4>1, <4>2
    <3> QED
      BY <3>3
  <2> QED
    <3> HIDE DEF Older
    <3>0. e.status = d.status /\ e.kind = d.kind
      BY <1>1
    <3>1. /\ \A s \in Statuses :
               e.status[s] = {t \in Stored(d) : e.all_tasks[t].status = s}
          /\ \A k \in Kinds :
               e.kind[k] = {t \in Stored(d) : e.all_tasks[t].kind.type = k}
      BY <1>0, <2>1, <3>0 DEF BitmapsConsistent
    <3>2. /\ e.enqueued_at = Stored(d)
          /\ e.started_at = {t \in Stored(d) : e.all_tasks[t].started_at}
          /\ e.finished_at = {t \in Stored(d) : e.all_tasks[t].finished_at}
      BY <1>0, <1>1, <2>1 DEF BitmapsConsistent
    <3>3. \A i \in IndexNames :
            e.index_tasks[i] = {t \in Stored(d) : i \in IndexesOf(e.all_tasks[t].kind)}
      BY <2>2
    <3> QED
      BY <1>8, <3>1, <3>2, <3>3 DEF BitmapsConsistent
<1>11. TasksConsistent(e)
  <2> SUFFICES ASSUME NEW t \in Stored(d)
               PROVE  LET task == e.all_tasks[t] IN
                      /\ task.finished_at <=> task.status \in Finished
                      /\ task.started_at => task.status \in Finished
                      /\ task.canceled_by # None <=> task.status = "Canceled"
                      /\ task.kind.tasks \subseteq 0 .. t - 1
                      /\ OwnFields(task.kind) /\ ValidSwaps(task.kind.swaps)
    BY <1>8 DEF TasksConsistent
  <2>1. CASE t \in Renamed
    BY <1>0, <1>6, <2>1 DEF TasksConsistent
  <2>2. CASE t \notin Renamed
    BY <1>0, <1>7, <2>2 DEF TasksConsistent
  <2> QED
    BY <2>1, <2>2
<1>12. CanceledByConsistent(e)
  <2>1. \A t \in Stored(d) : e.all_tasks[t].canceled_by = d.all_tasks[t].canceled_by
    BY <1>6, <1>7
  <2> QED
    BY <1>0, <1>1, <1>8, <2>1 DEF CanceledByConsistent
<1> QED
  BY <1>9, <1>10, <1>11, <1>12 DEF e, Good, InternallyConsistent

\* Creating or deleting the name of an index changes nothing else.
LEMMA MappingGood ==
  ASSUME NEW d, Good(d), NEW i \in IndexNames, NEW u \in TaskIds \cup {None}
  PROVE  LET e == PutMapping(d, i, u) IN
         /\ Good(e) /\ e.all_tasks = d.all_tasks /\ e.status = d.status /\ e.kind = d.kind
         /\ e.index_mapping = [d.index_mapping EXCEPT ![i] = u]
<1> DEFINE m == [d.index_mapping EXCEPT ![i] = u]
           e == PutMapping(d, i, u)
<1>0. d \in Databases /\ InternallyConsistent(d)
  BY DEF Good
<1>1. m \in [IndexNames -> TaskIds \cup {None}]
  BY <1>0 DEF Databases
<1>2. e = [d EXCEPT !.index_mapping = m]
  BY DEF PutMapping
<1> HIDE DEF m, e
<1>3. /\ e \in Databases /\ e.index_mapping = m
      /\ e.all_tasks = d.all_tasks /\ e.status = d.status /\ e.kind = d.kind
      /\ e.index_tasks = d.index_tasks /\ e.canceled_by = d.canceled_by
      /\ e.enqueued_at = d.enqueued_at /\ e.started_at = d.started_at
      /\ e.finished_at = d.finished_at
  BY <1>0, <1>1, <1>2 DEF Databases
<1>4. Stored(e) = Stored(d)
  BY <1>3 DEF Stored
<1>5. InternallyConsistent(e)
  BY <1>0, <1>3, <1>4 DEF InternallyConsistent, BitmapsConsistent, TasksConsistent,
                          CanceledByConsistent
<1> QED
  BY <1>3, <1>5 DEF e, m, Good

-----------------------------------------------------------------------------
(* What the transactions leave alone.                                       *)

\* In a good database what is stored is a task, and the enqueued tasks are the
\* stored ones with that status.
LEMMA GoodFacts ==
  ASSUME NEW d, Good(d)
  PROVE  /\ Stored(d) \subseteq TaskIds
         /\ \A t \in Stored(d) : d.all_tasks[t] \in Tasks
         /\ \A t \in TaskIds : d.all_tasks[t] \in Tasks => t \in Stored(d)
         /\ Enqueued(d) = {t \in Stored(d) : d.all_tasks[t].status = "Enqueued"}
         /\ AllTaskIds(d) = Stored(d)
         /\ \A t \in Enqueued(d) : /\ ~d.all_tasks[t].started_at /\ ~d.all_tasks[t].finished_at
                                   /\ d.all_tasks[t].canceled_by = None
<1>0. d \in Databases /\ BitmapsConsistent(d) /\ TasksConsistent(d)
  BY DEF Good, InternallyConsistent
<1>1. /\ Stored(d) \subseteq TaskIds
      /\ \A t \in Stored(d) : d.all_tasks[t] \in Tasks
      /\ \A t \in TaskIds : d.all_tasks[t] \in Tasks => t \in Stored(d)
  BY <1>0, NoneAssumption DEF Stored, Databases
<1>2. Enqueued(d) = {t \in Stored(d) : d.all_tasks[t].status = "Enqueued"}
  BY <1>0 DEF Enqueued, BitmapsConsistent, Statuses
<1>3. AllTaskIds(d) = Stored(d)
  <2>1. \A t \in Stored(d) : d.all_tasks[t].status \in Statuses
    BY <1>1 DEF Tasks
  <2>2. \A s \in Statuses : d.status[s] = {t \in Stored(d) : d.all_tasks[t].status = s}
    BY <1>0 DEF BitmapsConsistent
  <2> QED
    BY <2>1, <2>2 DEF AllTaskIds
<1>4. \A t \in Enqueued(d) : /\ ~d.all_tasks[t].started_at /\ ~d.all_tasks[t].finished_at
                             /\ d.all_tasks[t].canceled_by = None
  BY <1>0, <1>2 DEF TasksConsistent, Finished
<1> QED
  BY <1>1, <1>2, <1>3, <1>4

\* register adds one task, above all the others.
LEMMA RegisterFrame ==
  ASSUME NEW d, Good(d), NEW kind \in KindWithContent, NextTaskId(d) \in TaskIds
  PROVE  LET e == RegisterTask(d, kind) IN
         /\ \A t \in Stored(d) : t < NextTaskId(d) /\ e.all_tasks[t] = d.all_tasks[t]
         /\ Stored(e) = Stored(d) \cup {NextTaskId(d)}
         /\ e.all_tasks[NextTaskId(d)].status = "Enqueued"
         /\ e.all_tasks[NextTaskId(d)].kind.file = kind.file
         /\ Enqueued(e) = Enqueued(d) \cup {NextTaskId(d)}
         /\ e.index_mapping = d.index_mapping
<1> DEFINE uid == NextTaskId(d)
           task == [kind |-> FilterOutReferencesToNewerTasks(kind, uid), status |-> "Enqueued",
                    canceled_by |-> None, started_at |-> FALSE, finished_at |-> FALSE]
           e == RegisterTask(d, kind)
<1>0. d \in Databases /\ Stored(d) \subseteq TaskIds
  BY GoodFacts DEF Good
<1>1. uid \in Nat /\ \A t \in Stored(d) : t < uid /\ t # uid
  BY <1>0, NextTaskIdFresh, BoundsAssumption DEF TaskIds
<1>2. /\ e.all_tasks = [d.all_tasks EXCEPT ![uid] = task]
      /\ e.status = [d.status EXCEPT !["Enqueued"] = @ \cup {uid}]
      /\ e.index_mapping = d.index_mapping
  BY DEF RegisterTask
<1>3. task \in Tasks
  <2>1. FilterOutReferencesToNewerTasks(kind, uid) \in KindWithContent
    BY <1>1, FilteredKind
  <2> QED
    BY <2>1 DEF Tasks, Statuses
<1>4. task.status = "Enqueued" /\ task.kind.file = kind.file
  BY <1>1, FilteredKind
<1> HIDE DEF uid, task, e
<1>5. uid \in TaskIds /\ d.all_tasks \in [TaskIds -> Tasks \cup {None}]
      /\ d.status \in [Statuses -> SUBSET TaskIds] /\ "Enqueued" \in Statuses
  BY <1>0 DEF Databases, uid, Statuses
<1>6. Stored(e) = Stored(d) \cup {uid}
  BY <1>2, <1>3, <1>5, NoneAssumption DEF Stored
<1>7. Enqueued(e) = Enqueued(d) \cup {uid}
  BY <1>2, <1>5 DEF Enqueued
<1>8. /\ e.all_tasks[uid].status = "Enqueued" /\ e.all_tasks[uid].kind.file = kind.file
      /\ \A t \in Stored(d) : e.all_tasks[t] = d.all_tasks[t]
  BY <1>0, <1>1, <1>2, <1>4, <1>5
<1> QED
  BY <1>1, <1>2, <1>6, <1>7, <1>8 DEF uid, e

\* update_task changes the given tasks only, and not their kinds.
LEMMA UpdateFrame ==
  ASSUME NEW d, Good(d), NEW new, DOMAIN new \subseteq Enqueued(d),
         \A t \in DOMAIN new : FinishedVersion(d.all_tasks[t], new[t])
  PROVE  LET e == UpdateTasks(d, new) IN
         /\ Stored(e) = Stored(d)
         /\ \A t \in Stored(d) \ DOMAIN new : e.all_tasks[t] = d.all_tasks[t]
         /\ \A t \in DOMAIN new : e.all_tasks[t] = new[t]
         /\ \A t \in Stored(d) : e.all_tasks[t].kind = d.all_tasks[t].kind
         /\ Enqueued(e) = Enqueued(d) \ DOMAIN new
         /\ e.index_mapping = d.index_mapping
<1> DEFINE e == UpdateTasks(d, new)
<1>0. Good(e)
  BY UpdateGood
<1>1. /\ e.all_tasks = [t \in TaskIds |-> IF t \in DOMAIN new THEN new[t] ELSE d.all_tasks[t]]
      /\ e.index_mapping = d.index_mapping
  BY DEF UpdateTasks
<1>2. \A t \in DOMAIN new : /\ t \in Stored(d) /\ new[t] \in Tasks
                            /\ new[t].kind = d.all_tasks[t].kind /\ new[t].status # "Enqueued"
  BY GoodFacts DEF FinishedVersion, Finished
<1>3. Stored(d) \subseteq TaskIds
  BY GoodFacts
<1> HIDE DEF e
<1>4. Stored(e) = Stored(d)
  BY <1>1, <1>2, <1>3, NoneAssumption DEF Stored
<1>5. /\ \A t \in Stored(d) \ DOMAIN new : e.all_tasks[t] = d.all_tasks[t]
      /\ \A t \in DOMAIN new : e.all_tasks[t] = new[t]
      /\ \A t \in Stored(d) : e.all_tasks[t].kind = d.all_tasks[t].kind
  BY <1>1, <1>2, <1>3
<1>6. Enqueued(e) = Enqueued(d) \ DOMAIN new
  <2>1. /\ Enqueued(e) = {t \in Stored(e) : e.all_tasks[t].status = "Enqueued"}
        /\ Enqueued(d) = {t \in Stored(d) : d.all_tasks[t].status = "Enqueued"}
    BY <1>0, GoodFacts
  <2> QED
    BY <1>2, <1>4, <1>5, <2>1
<1> QED
  BY <1>1, <1>4, <1>5, <1>6 DEF e

\* cancel_matched_tasks cancels the matched tasks that are enqueued.
LEMMA CancelFrame ==
  ASSUME NEW d, Good(d), NEW c \in TaskIds, NEW matched, NEW previous
  PROVE  LET e == CancelMatchedTasks(d, c, matched, previous) IN
         /\ Stored(e) = Stored(d)
         /\ \A t \in Stored(d) \ matched : e.all_tasks[t] = d.all_tasks[t]
         /\ \A t \in Stored(d) \ Enqueued(d) : e.all_tasks[t] = d.all_tasks[t]
         /\ \A t \in Stored(d) : e.all_tasks[t].kind = d.all_tasks[t].kind
         /\ \A t \in Stored(d) : e.all_tasks[t].status \in {d.all_tasks[t].status, "Canceled"}
         /\ Enqueued(e) = Enqueued(d) \ matched
         /\ e.index_mapping = d.index_mapping
<1> DEFINE S == TasksToCancel(d, matched)
           new == CanceledTasks(d, c, matched, previous)
           u == UpdateTasks(d, new)
           e == CancelMatchedTasks(d, c, matched, previous)
<1>1. /\ DOMAIN new = S /\ S \subseteq Enqueued(d)
      /\ \A t \in S : FinishedVersion(d.all_tasks[t], new[t]) /\ new[t].status = "Canceled"
  BY CanceledVersions
<1>2. S = Enqueued(d) \cap matched
  BY DEF TasksToCancel
<1>3. e = [u EXCEPT !.canceled_by = [u.canceled_by EXCEPT ![c] = S]]
  BY DEF CancelMatchedTasks
<1> HIDE DEF new, S, e
<1>4. Good(u)
  BY <1>1, UpdateGood
<1>5. /\ Stored(u) = Stored(d)
      /\ \A t \in Stored(d) \ S : u.all_tasks[t] = d.all_tasks[t]
      /\ \A t \in S : u.all_tasks[t] = new[t]
      /\ \A t \in Stored(d) : u.all_tasks[t].kind = d.all_tasks[t].kind
      /\ Enqueued(u) = Enqueued(d) \ S
      /\ u.index_mapping = d.index_mapping
  BY <1>1, UpdateFrame
<1> HIDE DEF u
<1>6. e.all_tasks = u.all_tasks /\ e.status = u.status /\ e.index_mapping = u.index_mapping
  <2>1. u \in Databases
    BY <1>4 DEF Good
  <2> QED
    BY <1>3, <2>1 DEF Databases
<1>7. Stored(e) = Stored(u) /\ Enqueued(e) = Enqueued(u)
  BY <1>6 DEF Stored, Enqueued
<1> QED
  BY <1>1, <1>2, <1>5, <1>6, <1>7 DEF e

\* delete_matched_tasks deletes matched tasks, none of which is enqueued.
LEMMA DeleteFrame ==
  ASSUME NEW d, Good(d), NEW matched, NEW processing
  PROVE  LET e == DeleteMatchedTasks(d, matched, processing) IN
         /\ Stored(e) = Stored(d) \ TasksToDelete(d, matched, processing)
         /\ \A t \in Stored(e) : e.all_tasks[t] = d.all_tasks[t]
         /\ Enqueued(e) = Enqueued(d)
         /\ e.index_mapping = d.index_mapping
<1> DEFINE S == TasksToDelete(d, matched, processing)
           e == DeleteMatchedTasks(d, matched, processing)
<1>1. /\ e.all_tasks = [t \in TaskIds |-> IF t \in S THEN None ELSE d.all_tasks[t]]
      /\ e.index_mapping = d.index_mapping
  BY DEF DeleteMatchedTasks
<1>2. S \cap Enqueued(d) = {} /\ Good(e)
  BY DeleteGood DEF TasksToDelete
<1> HIDE DEF S, e
<1>3. Stored(e) = Stored(d) \ S /\ \A t \in Stored(e) : e.all_tasks[t] = d.all_tasks[t]
  BY <1>1 DEF Stored
<1>4. /\ Enqueued(e) = {t \in Stored(e) : e.all_tasks[t].status = "Enqueued"}
      /\ Enqueued(d) = {t \in Stored(d) : d.all_tasks[t].status = "Enqueued"}
  BY <1>2, GoodFacts
<1>5. Enqueued(e) = Enqueued(d)
  BY <1>2, <1>3, <1>4
<1> QED
  BY <1>1, <1>3, <1>5 DEF S, e

\* A swap renames only older tasks, and changes no status.
LEMMA SwapFrame ==
  ASSUME NEW d, Good(d), NEW task_id \in TaskIds,
         NEW swaps \in SUBSET (IndexNames \X IndexNames), ValidSwaps(swaps)
  PROVE  LET e == ApplyIndexSwaps(d, task_id, swaps) IN
         /\ Stored(e) = Stored(d)
         /\ \A t \in Stored(d) : ~ (t < task_id) => e.all_tasks[t] = d.all_tasks[t]
         /\ \A t \in Stored(d) : e.all_tasks[t].status = d.all_tasks[t].status
         /\ Enqueued(e) = Enqueued(d)
<1> DEFINE Renamed == UNION {{t \in d.index_tasks[i] : t < task_id} : i \in SwapNames(swaps)}
           e == ApplyIndexSwaps(d, task_id, swaps)
<1>1. /\ e.all_tasks = [t \in TaskIds |-> IF t \in Renamed
                          THEN SwapIndexUidInTask(d.all_tasks[t], swaps) ELSE d.all_tasks[t]]
      /\ e.status = d.status
  BY DEF ApplyIndexSwaps
<1>2. \A t \in Renamed : t < task_id
  OBVIOUS
<1>3. Renamed \subseteq Stored(d)
  BY DEF Good, InternallyConsistent, BitmapsConsistent, SwapNames
<1>4. \A t \in Renamed : SwapIndexUidInTask(d.all_tasks[t], swaps) \in Tasks
  BY <1>3, GoodFacts, SwappedTaskFacts
<1> HIDE DEF Renamed, e
<1>5. Stored(e) = Stored(d)
  BY <1>1, <1>3, <1>4, NoneAssumption DEF Stored
<1>6. \A t \in Stored(d) : ~ (t < task_id) => e.all_tasks[t] = d.all_tasks[t]
  BY <1>1, <1>2, GoodFacts
<1>7. Enqueued(e) = Enqueued(d)
  BY <1>1 DEF Enqueued
<1>8. \A t \in Stored(d) : e.all_tasks[t].status = d.all_tasks[t].status
  BY <1>1, GoodFacts, SwappedTask
<1> QED
  BY <1>5, <1>6, <1>7, <1>8 DEF e
=============================================================================
