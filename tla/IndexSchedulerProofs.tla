------------------------ MODULE IndexSchedulerProofs ------------------------
(***************************************************************************)
(* The safety of the scheduler, for any number of tasks, clients, indexes, *)
(* crashes and faults, and whatever the autobatcher decides.               *)
(***************************************************************************)
EXTENDS IndexScheduler, TaskDatabaseProofs

-----------------------------------------------------------------------------
(* The strengthening that makes the invariants inductive.                   *)

\* What the variant of the batch and the program counter say of each other.
\* A swap is processed when no enqueued task is older than it.
BatchShape ==
  /\ pc \in {"wait", "cleanup", "create_batch"} => Ids = {} /\ outcome.result = "Pending"
  /\ pc \notin {"wait", "cleanup", "create_batch"} => Ids # {}
  /\ batch.type \in {"TaskCancelation", "IndexSwap"} => \E t \in TaskIds : Ids = {t}
  /\ batch.type = "IndexSwap" => \A t \in Ids : \A u \in Enqueued(db) : t <= u
  /\ batch.type \in IndexBatches =>
       batch.index \in IndexNames /\ \A t \in Ids : batch.tasks[t].kind.index = batch.index
  /\ pc = "apply" => batch.type = "IndexOperation" /\ Uuid # None
  /\ pc = "update" => batch.type = "IndexCreation"
  /\ pc = "unlink_canceled" => outcome.result = "Ok"

\* The requests being registered have only the fields of their variant.
ClientKinds == \A c \in Clients : OwnFields(client[c].kind)

CoreInv == TypeOK /\ QueueConsistent /\ BatchUpToDate /\ BatchShape /\ ClientKinds

-----------------------------------------------------------------------------
(* The autobatcher.                                                         *)

\* Lowest and Highest return what their names say.
LEMMA LowestFacts ==
  ASSUME NEW T \in SUBSET Nat, T # {}
  PROVE  Lowest(T) \in T /\ \A u \in T : Lowest(T) <= u
  BY LowestExists DEF Lowest

\* Highest, which exists in a set of task ids.
LEMMA HighestFacts ==
  ASSUME NEW T \in SUBSET TaskIds, T # {}
  PROVE  Highest(T) \in T /\ \A u \in T : u <= Highest(T)
  BY HighestExists DEF Highest

\* Whatever its verdicts, autobatch takes its first task and skips none, and
\* the kinds that are never batched come first or not at all.
LEMMA AutobatchFacts ==
  ASSUME NEW T \in SUBSET Nat, T # {}, NEW kinds, NEW exists, NEW primary_key
  PROVE  LET auto == Autobatch(T, kinds, exists, primary_key)
             ids == auto.ids IN
         /\ ids \subseteq T
         /\ Lowest(T) \in ids
         /\ Lowest(ids) = Lowest(T)
         /\ \A t \in ids : \A u \in T : u < t => u \in ids
         /\ \A t \in ids : t = Lowest(T) \/ kinds[t].type \notin Alone
         /\ kinds[Lowest(T)].type = "IndexSwap" => auto.type = "IndexSwap"
<1> DEFINE B == Batchable(T, kinds)
           verdict == Verdicts(B, kinds, exists, primary_key)
           ids == BatchIds(B, verdict)
           first == Lowest(T)
<1>1. first \in T /\ \A u \in T : first <= u
  BY LowestFacts
<1>2. B = {t \in T : \A u \in T : u <= t => u = first \/ kinds[u].type \notin Alone}
  BY DEF Batchable
<1> HIDE DEF first, B
<1>3. first \in B
  BY <1>1, <1>2
<1>4. Lowest(B) = first
  <2>1. B \in SUBSET Nat /\ B # {}
    BY <1>2, <1>3
  <2>2. Lowest(B) \in B /\ \A u \in B : Lowest(B) <= u
    BY <2>1, LowestFacts
  <2> QED
    BY <1>1, <1>2, <1>3, <2>1, <2>2
<1> HIDE DEF verdict
<1>5. ids = {t \in B : \/ t = first
                       \/ /\ verdict[t].flow # "Stop"
                          /\ \A u \in B : u < t => verdict[u].flow = "Continue"}
  BY <1>4 DEF BatchIds
<1> HIDE DEF ids
<1>6. ids \subseteq T /\ first \in ids /\ \A t \in ids : t = first \/ kinds[t].type \notin Alone
  BY <1>2, <1>3, <1>5
<1>7. ASSUME NEW t \in ids, NEW u \in T, u < t PROVE u \in ids
  <2>1. u \in B
    BY <1>2, <1>5, <1>7
  <2>2. t # first
    BY <1>1, <1>7
  <2>3. \A v \in B : v < t => verdict[v].flow = "Continue"
    BY <1>5, <2>2
  <2>4. verdict[u].flow # "Stop"
    BY <1>7, <2>1, <2>3
  <2>5. \A v \in B : v < u => verdict[v].flow = "Continue"
    <3>1. t \in Nat /\ u \in Nat /\ \A v \in B : v \in Nat
      BY <1>2, <1>6
    <3>2. \A v \in Nat : v < u => v < t
      BY <1>7, <3>1
    <3> QED
      BY <2>3, <3>1, <3>2
  <2> QED
    BY <1>5, <2>1, <2>4, <2>5
<1>8. Lowest(ids) = first
  <2>1. ids \in SUBSET Nat /\ ids # {}
    BY <1>6
  <2>2. Lowest(ids) \in ids /\ \A u \in ids : Lowest(ids) <= u
    BY <2>1, LowestFacts
  <2>3. Lowest(ids) <= first /\ first <= Lowest(ids)
    BY <1>1, <1>6, <2>2
  <2>4. Lowest(ids) \in Nat /\ first \in Nat
    BY <1>6, <2>1, <2>2
  <2> QED
    BY <2>3, <2>4
<1> DEFINE auto == Autobatch(T, kinds, exists, primary_key)
           new == BatchKindNew(kinds[first], primary_key)
<1>9. /\ auto.ids = IF new.flow = "Continue" THEN ids ELSE {first}
      /\ new.flow # "Continue" => auto.type = new.batch.type
  BY DEF Autobatch, ids, verdict, B, first
<1>10. kinds[first].type = "IndexSwap" => new.flow # "Continue" /\ new.batch.type = "IndexSwap"
  <2> DEFINE k == AutobatchKind(kinds[first])
  <2> SUFFICES ASSUME kinds[first].type = "IndexSwap"
               PROVE  new.flow # "Continue" /\ new.batch.type = "IndexSwap"
    OBVIOUS
  <2>1. k.type = "IndexSwap"
    BY DEF AutobatchKind
  <2> HIDE DEF k
  <2>2. new = Absorb(k)
    BY <2>1 DEF BatchKindNew, k
  <2> QED
    BY <2>1, <2>2 DEF Absorb
<1> HIDE DEF auto, new
<1>11. Lowest({first}) = first
  <2>1. first \in Nat
    BY <1>1
  <2> QED
    BY <2>1 DEF Lowest
<1>12. /\ auto.ids \subseteq T /\ first \in auto.ids /\ Lowest(auto.ids) = first
       /\ \A t \in auto.ids : \A u \in T : u < t => u \in auto.ids
       /\ \A t \in auto.ids : t = first \/ kinds[t].type \notin Alone
  <2>1. CASE auto.ids = ids
    BY <1>6, <1>7, <1>8, <2>1
  <2>2. CASE auto.ids = {first}
    <3>1. \A u \in T : ~ (u < first)
      BY <1>1
    <3> QED
      BY <1>1, <1>11, <2>2, <3>1
  <2> QED
    BY <1>9, <2>1, <2>2
<1> QED
  BY <1>9, <1>10, <1>12 DEF first, auto

-----------------------------------------------------------------------------
(* The next batch.                                                          *)

\* What is required of a batch b that create_next_batch has just made.
GoodBatch(b) ==
  LET ids == DOMAIN b.tasks IN
  /\ ids # {} /\ ids \subseteq Enqueued(db)
  /\ \A t \in ids : b.tasks[t] = db.all_tasks[t]
  /\ b.type \in {"TaskCancelation", "IndexSwap"} => \E t \in TaskIds : ids = {t}
  /\ b.type = "IndexSwap" => \A t \in ids : \A u \in Enqueued(db) : t <= u
  /\ b.type \in IndexBatches =>
       b.index \in IndexNames /\ \A t \in ids : b.tasks[t].kind.index = b.index
  /\ \A t \in ids : \A u \in Enqueued(db) \ ids : u < t => ~ShareIndex(t, u)

\* The enqueued tasks of a kind that is about no index make a good batch.
LEMMA GlobalBatchGood ==
  ASSUME Good(db), NEW type, NEW kind \in GlobalKinds, type \notin IndexBatches,
         type # "IndexSwap", NEW S \in SUBSET OfKind(kind), S # {}, NEW previous,
         type = "TaskCancelation" => \E t \in TaskIds : S = {t}
  PROVE  GoodBatch(GlobalBatch(type, S, previous))
<1> DEFINE b == GlobalBatch(type, S, previous)
<1>1. b.type = type /\ b.tasks = [t \in S |-> db.all_tasks[t]]
  BY DEF GlobalBatch, TasksOf
<1>2. S \subseteq Enqueued(db)
  BY DEF OfKind
<1>3. \A t \in S : IndexesOf(db.all_tasks[t].kind) = {}
  <2> SUFFICES ASSUME NEW t \in S PROVE IndexesOf(db.all_tasks[t].kind) = {}
    OBVIOUS
  <2>1. kind \in Kinds
    BY DEF Kinds
  <2>2. t \in Stored(db) /\ db.all_tasks[t].kind.type = kind
    BY <2>1 DEF OfKind, Good, InternallyConsistent, BitmapsConsistent
  <2>3. OwnFields(db.all_tasks[t].kind)
    BY <2>2 DEF Good, InternallyConsistent, TasksConsistent
  <2> QED
    BY <2>2, <2>3 DEF OwnFields, IndexesOf, GlobalKinds, IndexKinds
<1> HIDE DEF b
<1> QED
  BY <1>1, <1>2, <1>3 DEF GoodBatch, ShareIndex, b

\* A batch that starts with the lowest enqueued task and skips no task of its
\* index is good.
LEMMA AutobatchedBatchGood ==
  ASSUME Good(db), Enqueued(db) # {}
  PROVE  GoodBatch(AutobatchedBatch)
<1> DEFINE task_id == Lowest(Enqueued(db))
           kind == db.all_tasks[task_id].kind
           index == CHOOSE i \in IndexesOf(kind) : TRUE
           index_tasks == db.index_tasks[index] \cap Enqueued(db)
           candidates == IF AutobatchingEnabled THEN index_tasks ELSE {Lowest(index_tasks)}
           kinds == [t \in candidates |-> db.all_tasks[t].kind]
           uuid == db.index_mapping[index]
           exists == uuid # None
           primary_key == IF uuid = None THEN None ELSE indexes[uuid].pk
           auto == Autobatch(candidates, kinds, exists, primary_key)
<1>1. Enqueued(db) \in SUBSET Nat /\ Enqueued(db) \subseteq TaskIds /\ Enqueued(db) \subseteq Stored(db)
  <2>1. Enqueued(db) \subseteq Stored(db) /\ Stored(db) \subseteq TaskIds
    BY GoodFacts
  <2> QED
    BY <2>1, BoundsAssumption DEF TaskIds
<1>2. task_id \in Enqueued(db) /\ \A u \in Enqueued(db) : task_id <= u
  BY <1>1, LowestFacts
<1>3. /\ task_id \in Stored(db) /\ task_id \in TaskIds
      /\ db.all_tasks[task_id] \in Tasks /\ kind \in KindWithContent
  <2>1. db.all_tasks[task_id] \in Tasks
    BY <1>1, <1>2, GoodFacts
  <2> QED
    BY <1>1, <1>2, <2>1 DEF Tasks
<1> HIDE DEF task_id
<1>4. CASE IndexesOf(kind) = {}
  <2> DEFINE b == GlobalBatch("IndexSwap", {task_id}, {})
  <2>1. AutobatchedBatch = b
    BY <1>4 DEF AutobatchedBatch, task_id
  <2>2. b.type = "IndexSwap" /\ b.tasks = [t \in {task_id} |-> db.all_tasks[t]]
    BY DEF GlobalBatch, TasksOf
  <2> HIDE DEF b
  <2>3. DOMAIN b.tasks = {task_id} /\ \A t \in {task_id} : b.tasks[t] = db.all_tasks[t]
    BY <2>2
  <2> QED
    BY <1>2, <1>3, <1>4, <2>1, <2>2, <2>3 DEF GoodBatch, ShareIndex, IndexBatches
<1>5. CASE IndexesOf(kind) # {}
  <2>1. index \in IndexesOf(kind) /\ index \in IndexNames
    <3>1. index \in IndexesOf(kind)
      BY <1>5
    <3>2. IndexesOf(kind) \subseteq IndexNames
      BY <1>3 DEF IndexesOf, KindWithContent, SwapNames
    <3> QED
      BY <3>1, <3>2
  <2> HIDE DEF index
  <2>2. db.index_tasks[index] = {t \in Stored(db) : index \in IndexesOf(db.all_tasks[t].kind)}
    BY <2>1 DEF Good, InternallyConsistent, BitmapsConsistent
  <2>3. task_id \in index_tasks /\ index_tasks \in SUBSET Nat
    BY <1>1, <1>2, <1>3, <2>1, <2>2
  <2>4. Lowest(index_tasks) = task_id
    <3>1. Lowest(index_tasks) \in index_tasks /\ Lowest(index_tasks) <= task_id
      BY <2>3, LowestFacts
    <3>2. task_id <= Lowest(index_tasks)
      BY <1>2, <3>1
    <3>3. task_id \in Nat /\ Lowest(index_tasks) \in Nat
      BY <2>3, <3>1
    <3> QED
      BY <3>1, <3>2, <3>3
  <2>5. /\ candidates \in SUBSET Nat /\ candidates # {} /\ candidates \subseteq index_tasks
        /\ candidates = index_tasks \/ candidates = {task_id}
        /\ task_id \in candidates
    BY <2>3, <2>4
  <2> HIDE DEF candidates
  <2>6. Lowest(candidates) = task_id
    <3>1. Lowest(candidates) \in candidates /\ Lowest(candidates) <= task_id
      BY <2>5, LowestFacts
    <3>2. task_id <= Lowest(candidates)
      BY <1>2, <2>5, <3>1
    <3>3. task_id \in Nat /\ Lowest(candidates) \in Nat
      BY <2>5, <3>1
    <3> QED
      BY <3>1, <3>2, <3>3
  <2> HIDE DEF kinds, exists, primary_key
  <2>7. /\ auto.ids \subseteq candidates /\ task_id \in auto.ids
        /\ Lowest(auto.ids) = task_id
        /\ \A t \in auto.ids : \A u \in candidates : u < t => u \in auto.ids
        /\ \A t \in auto.ids : t = task_id \/ kinds[t].type \notin Alone
        /\ kinds[task_id].type = "IndexSwap" => auto.type = "IndexSwap"
    BY <2>5, <2>6, AutobatchFacts
  <2>8. AutobatchedBatch = CreateNextBatchIndex(index, auto)
    BY <1>5 DEF AutobatchedBatch, task_id, index, candidates, kinds, exists, primary_key
  <2>9. \A t \in candidates : kinds[t] = db.all_tasks[t].kind
    BY DEF kinds
  <2> HIDE DEF auto
  <2> DEFINE b == CreateNextBatchIndex(index, auto)
             ids == IF auto.type \in Alone THEN {task_id} ELSE auto.ids
  <2>10. /\ b.tasks = [t \in ids |-> db.all_tasks[t]]
         /\ b.type # "TaskCancelation"
         /\ b.type = "IndexSwap" => ids = {task_id}
         /\ b.type \in IndexBatches => b.index = index
         /\ auto.type = "IndexSwap" => b.type = "IndexSwap"
    <3>1. b.tasks = [t \in ids |-> db.all_tasks[t]]
      BY <2>7 DEF CreateNextBatchIndex, TasksOf
    <3>2. /\ b.type # "TaskCancelation"
          /\ b.type = "IndexSwap" => auto.type = "IndexSwap"
          /\ auto.type = "IndexSwap" => b.type = "IndexSwap"
          /\ b.index = IF b.type = "IndexSwap" THEN None ELSE index
      BY DEF CreateNextBatchIndex
    <3> HIDE DEF b
    <3> QED
      BY <3>1, <3>2 DEF Alone, IndexBatches
  <2> HIDE DEF b
  <2>11. /\ ids # {} /\ ids \subseteq candidates
         /\ \A t \in ids : t = task_id \/ kinds[t].type # "IndexSwap"
         /\ \A t \in ids : t = task_id \/ \A u \in candidates : u < t => u \in ids
    BY <2>5, <2>7 DEF Alone
  <2> HIDE DEF ids
  <2>12. ASSUME NEW t \in ids, NEW u \in Enqueued(db) \ ids, u < t
         PROVE  ~ShareIndex(t, u)
    <3>1. t # task_id
      <4>1. task_id \in Nat /\ u \in Nat /\ task_id <= u
        BY <1>1, <1>2
      <4> QED
        BY <2>12, <4>1
    <3>2. /\ db.all_tasks[t].kind.type # "IndexSwap"
          /\ index \in IndexesOf(db.all_tasks[t].kind)
          /\ candidates = index_tasks
      BY <2>2, <2>5, <2>9, <2>11, <3>1
    <3>3. IndexesOf(db.all_tasks[t].kind) = {index}
      BY <3>2 DEF IndexesOf
    <3>4. index \notin IndexesOf(db.all_tasks[u].kind)
      <4>1. u \notin index_tasks
        BY <2>11, <2>12, <3>1, <3>2
      <4> QED
        BY <1>1, <2>2, <4>1
    <3> QED
      BY <3>3, <3>4 DEF ShareIndex
  <2>13. ids \subseteq Enqueued(db)
    BY <2>5, <2>11
  <2>14. DOMAIN b.tasks = ids /\ \A t \in ids : b.tasks[t] = db.all_tasks[t]
    BY <2>10
  <2>15. b.type = "IndexSwap" => \A t \in ids : \A u \in Enqueued(db) : t <= u
    BY <1>2, <2>10
  <2>16. b.type \in IndexBatches => \A t \in ids : b.tasks[t].kind.index = b.index
    <3> SUFFICES ASSUME b.type \in IndexBatches, NEW t \in ids
                 PROVE  db.all_tasks[t].kind.index = index
      BY <2>10, <2>14
    <3>1. t \in candidates /\ index \in IndexesOf(db.all_tasks[t].kind)
      BY <2>2, <2>5, <2>11
    <3>2. kinds[task_id].type # "IndexSwap"
      BY <2>7, <2>10 DEF IndexBatches
    <3>3. db.all_tasks[t].kind.type # "IndexSwap"
      BY <2>5, <2>9, <2>11, <3>1, <3>2
    <3> QED
      BY <3>1, <3>3 DEF IndexesOf
  <2> QED
    BY <1>3, <2>1, <2>8, <2>10, <2>11, <2>12, <2>13, <2>14, <2>15, <2>16 DEF GoodBatch, b
<1> QED
  BY <1>4, <1>5

\* create_next_batch makes a good batch.
LEMMA NextBatchGood ==
  ASSUME Good(db), Enqueued(db) # {}
  PROVE  GoodBatch(NextBatch)
<1> DEFINE to_cancel   == OfKind("TaskCancelation")
           to_delete   == OfKind("TaskDeletion")
           to_snapshot == OfKind("SnapshotCreation")
           to_dump     == OfKind("DumpCreation")
<1>1. \A k : OfKind(k) \subseteq TaskIds /\ OfKind(k) \in SUBSET Nat
  <2>1. Enqueued(db) \subseteq TaskIds
    BY GoodFacts
  <2> QED
    BY <2>1, BoundsAssumption DEF OfKind, TaskIds
<1>2. CASE to_cancel # {}
  <2>1. Highest(to_cancel) \in to_cancel /\ Highest(to_cancel) \in TaskIds
    BY <1>1, <1>2, HighestFacts
  <2>2. NextBatch = GlobalBatch("TaskCancelation", {Highest(to_cancel)}, processing)
    BY <1>2 DEF NextBatch
  <2> QED
    BY <2>1, <2>2, GlobalBatchGood DEF IndexBatches, GlobalKinds
<1>3. CASE to_cancel = {} /\ to_delete # {}
  <2>1. Lowest(to_delete) \in to_delete
    BY <1>1, <1>3, LowestFacts
  <2>2. NextBatch = GlobalBatch("TaskDeletion", {Lowest(to_delete)}, {})
    BY <1>3 DEF NextBatch
  <2> QED
    BY <2>1, <2>2, GlobalBatchGood DEF IndexBatches, GlobalKinds
<1>4. CASE to_cancel = {} /\ to_delete = {} /\ to_snapshot # {}
  <2>1. NextBatch = GlobalBatch("SnapshotCreation", to_snapshot, {})
    BY <1>4 DEF NextBatch
  <2> QED
    BY <1>4, <2>1, GlobalBatchGood DEF IndexBatches, GlobalKinds
<1>5. CASE to_cancel = {} /\ to_delete = {} /\ to_snapshot = {} /\ to_dump # {}
  <2>1. Lowest(to_dump) \in to_dump
    BY <1>1, <1>5, LowestFacts
  <2>2. NextBatch = GlobalBatch("Dump", {Lowest(to_dump)}, {})
    BY <1>5 DEF NextBatch
  <2> QED
    BY <2>1, <2>2, GlobalBatchGood DEF IndexBatches, GlobalKinds
<1>6. CASE to_cancel = {} /\ to_delete = {} /\ to_snapshot = {} /\ to_dump = {}
  <2>1. NextBatch = AutobatchedBatch
    BY <1>6 DEF NextBatch
  <2> QED
    BY <2>1, AutobatchedBatchGood
<1> QED
  BY <1>2, <1>3, <1>4, <1>5, <1>6

-----------------------------------------------------------------------------
(* The core invariant.                                                      *)

\* The kinds that requests, cleanups and idle clients are made of.
LEMMA KindFacts ==
  /\ NoKind \in KindWithContent /\ OwnFields(NoKind)
  /\ \A S \in SUBSET TaskIds :
       LET k == [Bare("TaskDeletion") EXCEPT !.tasks = S] IN
       k \in KindWithContent /\ OwnFields(k) /\ k.swaps = {}
<1>1. NoKind \in KindWithContent /\ OwnFields(NoKind)
  BY DEF NoKind, Bare, KindWithContent, OwnFields, Kinds, IndexKinds, GlobalKinds
<1>2. ASSUME NEW S \in SUBSET TaskIds
      PROVE  LET k == [Bare("TaskDeletion") EXCEPT !.tasks = S] IN
             k \in KindWithContent /\ OwnFields(k) /\ k.swaps = {}
  <2> DEFINE b == Bare("TaskDeletion")
             k == [b EXCEPT !.tasks = S]
  <2>1. /\ b \in KindWithContent /\ b.type = "TaskDeletion" /\ b.index = None /\ b.swaps = {}
    BY DEF Bare, KindWithContent, Kinds, GlobalKinds
  <2> HIDE DEF b
  <2>2. /\ k \in KindWithContent /\ k.type = b.type /\ k.index = b.index /\ k.swaps = b.swaps
    BY <2>1 DEF KindWithContent
  <2> QED
    BY <2>1, <2>2 DEF OwnFields, IndexKinds, b
<1> QED
  BY <1>1, <1>2

\* A request with its file and the tasks its query found is a kind.
LEMMA PreparedKind ==
  ASSUME NEW request \in Requests, NEW file \in FileIds \cup {None}, NEW S
  PROVE  LET k == [request EXCEPT !.file = file, !.tasks = @ \cap S] IN
         k \in KindWithContent /\ OwnFields(k)
<1>1. request \in KindWithContent /\ OwnFields(request)
  BY RequestsAssumption
<1> DEFINE k == [request EXCEPT !.file = file, !.tasks = @ \cap S]
<1>2. request.tasks \cap S \in SUBSET TaskIds
  BY <1>1 DEF KindWithContent
<1>3. /\ k \in KindWithContent /\ k.type = request.type /\ k.index = request.index
      /\ k.swaps = request.swaps
  BY <1>1, <1>2 DEF KindWithContent
<1> QED
  BY <1>1, <1>3 DEF OwnFields

\* The content files of stored tasks are files.
LEMMA ContentFilesType ==
  ASSUME NEW d, Good(d), NEW S \in SUBSET Stored(d)
  PROVE  ContentFiles(d, S) \subseteq FileIds
<1>1. \A t \in S : d.all_tasks[t].kind.file \in FileIds \cup {None}
  BY GoodFacts DEF Tasks, KindWithContent
<1> QED
  BY <1>1 DEF ContentFiles

\* The initial state satisfies the invariant.
LEMMA CoreInit == Init => CoreInv
<1> SUFFICES ASSUME Init PROVE CoreInv
  OBVIOUS
<1>1. db \in Databases /\ QueueConsistent
  BY EmptyGood DEF Init, Good, QueueConsistent
<1>2. Ids = {}
  BY DEF Init, Ids, NoBatch
<1>3. client \in [Clients -> ClientStates] /\ ClientKinds
  BY KindFacts DEF Init, Idle, At, ClientStates, ClientKinds
<1>4. /\ snapshot \in [complete: BOOLEAN, db: Databases, files: SUBSET FileIds]
      /\ indexes \in [TaskIds -> IndexEnvs]
  BY EmptyGood DEF Init, Good, NoSnapshot, NewIndex, Index, IndexEnvs
<1>5. /\ outcome.result = "Pending" /\ outcome.unlink = {}
      /\ batch.type = "None"
  BY DEF Init, Pending, Err, Outcome, NoBatch
<1>6. TypeOK
  <2>1. /\ next_file \in 0 .. MaxFiles /\ crashes \in 0 .. MaxCrashes
        /\ faults \in 0 .. MaxFaults /\ resizes \in 0 .. MaxResizes
    BY BoundsAssumption, LimitsAssumption DEF Init
  <2>2. files = {} /\ processing = {} /\ must_stop = FALSE /\ wake_up = TRUE /\ pc = "wait"
    BY DEF Init
  <2> QED
    BY <1>1, <1>2, <1>3, <1>4, <1>5, <2>1, <2>2 DEF TypeOK, ProgramCounters
<1>7. BatchUpToDate /\ BatchShape
  BY <1>2, <1>5 DEF Init, BatchUpToDate, BatchShape, IndexBatches
<1> QED
  BY <1>1, <1>3, <1>6, <1>7 DEF CoreInv

\* A step that leaves the batch alone, and the tasks of the batch in the queue
\* as they are, keeps the batch up to date and in shape.
LEMMA BatchKept ==
  ASSUME CoreInv, UNCHANGED batch,
         \A t \in Ids : db'.all_tasks[t] = db.all_tasks[t],
         batch.type = "IndexSwap" => \A t \in Ids : \A u \in Enqueued(db') : t <= u,
         pc \in {"wait", "cleanup", "create_batch"} <=> pc' \in {"wait", "cleanup", "create_batch"},
         pc' \in {"wait", "cleanup", "create_batch"} => outcome'.result = "Pending",
         pc' = "apply" => batch.type = "IndexOperation" /\ db'.index_mapping[batch.index] # None,
         pc' = "update" => batch.type = "IndexCreation",
         pc' = "unlink_canceled" => outcome'.result = "Ok"
  PROVE  BatchUpToDate' /\ BatchShape'
<1>1. Ids' = Ids
  BY DEF Ids
<1>2. BatchUpToDate'
  BY <1>1 DEF CoreInv, BatchUpToDate
<1>3. BatchShape'
  BY <1>1 DEF CoreInv, BatchShape, Uuid
<1> QED
  BY <1>2, <1>3

\* What the invariant says of the queue and the batch.
LEMMA CoreFacts ==
  ASSUME CoreInv
  PROVE  /\ Good(db)
         /\ Ids \subseteq Enqueued(db) /\ Ids \subseteq Stored(db) /\ Ids \subseteq TaskIds
         /\ \A t \in Ids : db.all_tasks[t] = batch.tasks[t] /\ batch.tasks[t] \in Tasks
<1>1. Good(db)
  BY DEF CoreInv, TypeOK, QueueConsistent, Good
<1>2. Ids \subseteq TaskIds
      /\ \A t \in Ids : db.all_tasks[t] = batch.tasks[t] /\ batch.tasks[t] \in Tasks
                        /\ batch.tasks[t].status = "Enqueued"
  BY DEF CoreInv, TypeOK, BatchUpToDate
<1> QED
  BY <1>1, <1>2, GoodFacts

\* Clients keep the invariant: a registered task is new, so that it is in no
\* batch and older than none.
LEMMA ClientStep ==
  ASSUME CoreInv, NEW c \in Clients, Client(c)
  PROVE  CoreInv'
<1> USE DEF durable, shared, scheduler, budget
<1>0. /\ Good(db) /\ Ids \subseteq Stored(db) /\ Ids \subseteq TaskIds
      /\ client \in [Clients -> ClientStates] /\ ClientKinds
      /\ client[c].kind \in KindWithContent /\ OwnFields(client[c].kind)
  BY CoreFacts DEF CoreInv, TypeOK, ClientStates, ClientKinds
<1>1. ASSUME UNCHANGED <<db, batch, outcome, pc>> PROVE QueueConsistent' /\ BatchUpToDate' /\ BatchShape'
  BY <1>1, BatchKept DEF CoreInv, QueueConsistent, BatchShape, Uuid
<1>2. ASSUME NEW at \in {"idle", "register", "check_processing", "must_stop", "signal"},
             NEW kind \in KindWithContent, OwnFields(kind),
             client' = [client EXCEPT ![c] = At(at, kind)]
      PROVE  client' \in [Clients -> ClientStates] /\ ClientKinds'
  <2>1. At(at, kind) \in ClientStates /\ At(at, kind).kind = kind
    BY DEF At, ClientStates
  <2> QED
    BY <1>0, <1>2, <2>1 DEF ClientKinds
<1>3. ASSUME NEW request \in Requests, PrepareTask(c, request) PROVE CoreInv'
  <2> DEFINE addition == request.type = "DocumentAdditionOrUpdate"
             file == IF addition THEN next_file ELSE None
             kind == [request EXCEPT !.file = file, !.tasks = @ \cap AllTaskIds(db)]
  <2>1. /\ addition => next_file \in FileIds
        /\ client' = [client EXCEPT ![c] = At("register", kind)]
        /\ files' = files \cup ({file} \ {None})
        /\ next_file' = IF addition THEN next_file + 1 ELSE next_file
        /\ UNCHANGED <<db, indexes, snapshot, shared, scheduler, budget>>
    BY <1>3 DEF PrepareTask
  <2>2. file \in FileIds \cup {None}
    BY <2>1
  <2>3. kind \in KindWithContent /\ OwnFields(kind)
    BY <2>2, PreparedKind
  <2>4. client' \in [Clients -> ClientStates] /\ ClientKinds'
    BY <1>2, <2>1, <2>3
  <2>5. files' \subseteq FileIds
    BY <2>1, <2>2 DEF CoreInv, TypeOK
  <2>6. next_file' \in 0 .. MaxFiles
    BY <2>1, BoundsAssumption DEF CoreInv, TypeOK, FileIds
  <2>7. TypeOK'
    BY <2>1, <2>4, <2>5, <2>6 DEF CoreInv, TypeOK, Ids
  <2> QED
    BY <1>1, <2>1, <2>4, <2>7 DEF CoreInv
<1>4. ASSUME Register(c) PROVE CoreInv'
  <2> DEFINE kind == client[c].kind
             uid == NextTaskId(db)
  <2>1. /\ ~Refused(kind) /\ uid \in TaskIds
        /\ db' = RegisterTask(db, kind)
        /\ UNCHANGED <<files, next_file, indexes, snapshot, shared, scheduler, budget>>
    BY <1>4 DEF Register
  <2>2. ValidSwaps(kind.swaps)
    <3>1. kind.type = "IndexSwap" => ValidSwaps(kind.swaps)
      BY <2>1 DEF Refused
    <3>2. kind.type # "IndexSwap" => kind.swaps = {}
      BY <1>0 DEF OwnFields
    <3> QED
      BY <3>1, <3>2 DEF ValidSwaps
  <2>3. Good(db')
    BY <1>0, <2>1, <2>2, RegisterGood
  <2>4. /\ \A t \in Stored(db) : t < uid /\ db'.all_tasks[t] = db.all_tasks[t]
        /\ Enqueued(db') = Enqueued(db) \cup {uid}
        /\ db'.index_mapping = db.index_mapping
    BY <1>0, <2>1, RegisterFrame
  <2>5. client' \in [Clients -> ClientStates] /\ ClientKinds'
    <3>1. CASE kind.type = "TaskCancelation"
      <4>1. client' = [client EXCEPT ![c] = At("check_processing", kind)]
        BY <1>0, <1>4, <3>1 DEF Register
      <4> QED
        BY <1>0, <1>2, <4>1
    <3>2. CASE kind.type # "TaskCancelation"
      <4>1. client' = [client EXCEPT ![c] = At("signal", NoKind)]
        BY <1>0, <1>4, <3>2 DEF Register
      <4> QED
        BY <1>2, <4>1, KindFacts
    <3> QED
      BY <3>1, <3>2
  <2>6. TypeOK' /\ QueueConsistent'
    BY <2>1, <2>3, <2>5 DEF CoreInv, TypeOK, Ids, Good, QueueConsistent
  <2>7. batch.type = "IndexSwap" => \A t \in Ids : \A u \in Enqueued(db') : t <= u
    <3>1. \A t \in Ids : t < uid /\ t \in Nat
      BY <1>0, <2>4, BoundsAssumption DEF TaskIds
    <3>2. uid \in Nat
      BY NextTaskIdFresh
    <3> QED
      BY <2>4, <3>1, <3>2 DEF CoreInv, BatchShape
  <2>8. BatchUpToDate' /\ BatchShape'
    <3>1. /\ UNCHANGED <<batch, outcome, pc>>
          /\ \A t \in Ids : db'.all_tasks[t] = db.all_tasks[t]
          /\ db'.index_mapping[batch.index] = Uuid
      BY <1>0, <2>1, <2>4 DEF Uuid
    <3> QED
      BY <2>7, <3>1, BatchKept DEF CoreInv, BatchShape
  <2> QED
    BY <2>5, <2>6, <2>8 DEF CoreInv
<1>5. ASSUME RegisterRefused(c) \/ RegisterFails(c) PROVE CoreInv'
  <2>1. /\ client' = [client EXCEPT ![c] = At("idle", NoKind)]
        /\ files' \subseteq files /\ faults' \in 0 .. MaxFaults
        /\ UNCHANGED <<db, next_file, indexes, snapshot, shared, scheduler, crashes, resizes>>
    BY <1>5, LimitsAssumption DEF RegisterRefused, RegisterFails, Idle, Fault, CoreInv, TypeOK
  <2>2. client' \in [Clients -> ClientStates] /\ ClientKinds'
    BY <1>2, <2>1, KindFacts
  <2>3. TypeOK'
    BY <2>1, <2>2 DEF CoreInv, TypeOK, Ids
  <2> QED
    BY <1>1, <2>1, <2>2, <2>3 DEF CoreInv
<1>6. ASSUME Notify(c) PROVE CoreInv'
  <2>1. /\ \E at \in {"idle", "must_stop", "signal"} :
             client' = [client EXCEPT ![c] = At(at, NoKind)]
        /\ must_stop' \in BOOLEAN /\ wake_up' \in BOOLEAN
        /\ UNCHANGED <<durable, processing, scheduler, budget>>
    <3>1. CASE CheckProcessing(c)
      BY <1>0, <3>1 DEF CheckProcessing, CoreInv, TypeOK
    <3>2. CASE MustStop(c)
      BY <3>2 DEF MustStop, CoreInv, TypeOK
    <3>3. CASE Signal(c)
      BY <3>3 DEF Signal, Idle, CoreInv, TypeOK
    <3> QED
      BY <1>6, <3>1, <3>2, <3>3 DEF Notify
  <2>2. client' \in [Clients -> ClientStates] /\ ClientKinds'
    BY <1>2, <2>1, KindFacts
  <2>3. TypeOK'
    BY <2>1, <2>2 DEF CoreInv, TypeOK, Ids
  <2> QED
    BY <1>1, <2>1, <2>2, <2>3 DEF CoreInv
<1> QED
  BY <1>3, <1>4, <1>5, <1>6 DEF Client

\* The end of a tick forgets the batch.
LEMMA EndOfTickShape ==
  ASSUME EndOfTick
  PROVE  /\ Ids' = {} /\ BatchUpToDate' /\ BatchShape' /\ pc' = "cleanup"
         /\ outcome'.result = "Pending" /\ outcome'.unlink = {}
<1>1. Ids' = {} /\ batch'.type = "None"
  BY DEF EndOfTick, Ids, NoBatch
<1>2. outcome'.result = "Pending" /\ outcome'.unlink = {}
  BY DEF EndOfTick, Pending, Err, Outcome
<1>3. pc' = "cleanup"
  BY DEF EndOfTick
<1> QED
  BY <1>1, <1>2, <1>3 DEF BatchUpToDate, BatchShape, IndexBatches

\* The tasks that the tick writes back are finished versions of enqueued ones.
LEMMA UpdatedVersions ==
  ASSUME CoreInv
  PROVE  /\ DOMAIN UpdatedTasks = Ids /\ Ids \subseteq Enqueued(db)
         /\ \A t \in Ids : /\ FinishedVersion(db.all_tasks[t], UpdatedTasks[t])
                           /\ UpdatedTasks[t].status \in {"Succeeded", "Failed"}
<1>0. /\ Good(db) /\ Ids \subseteq Enqueued(db)
      /\ \A t \in Ids : db.all_tasks[t] = batch.tasks[t] /\ batch.tasks[t] \in Tasks
  BY CoreFacts
<1>1. DOMAIN UpdatedTasks = Ids
  BY DEF UpdatedTasks
<1>2. ASSUME NEW t \in Ids
      PROVE  /\ FinishedVersion(db.all_tasks[t], UpdatedTasks[t])
             /\ UpdatedTasks[t].status \in {"Succeeded", "Failed"}
  <2> DEFINE s == IF outcome.result = "Ok" THEN outcome.status[t] ELSE "Failed"
             new == UpdatedTasks[t]
  <2>1. s \in {"Succeeded", "Failed"}
    BY DEF CoreInv, TypeOK
  <2>2. db.all_tasks[t].canceled_by = None
    BY <1>0, GoodFacts
  <2>3. new = Finish(db.all_tasks[t], s, None, TRUE)
    BY <1>0, <2>2 DEF UpdatedTasks
  <2>4. new = [kind |-> db.all_tasks[t].kind, status |-> s, canceled_by |-> None,
               started_at |-> TRUE, finished_at |-> TRUE]
    BY <2>3 DEF Finish
  <2> HIDE DEF s, new
  <2>5. db.all_tasks[t].kind \in KindWithContent
    BY <1>0 DEF Tasks
  <2>6. new \in Tasks
    BY <2>1, <2>4, <2>5 DEF Tasks, Statuses
  <2>7. FinishedVersion(db.all_tasks[t], new) /\ new.status = s
    BY <2>1, <2>4, <2>6 DEF FinishedVersion, Finished, Statuses
  <2> QED
    BY <2>1, <2>7 DEF new
<1> QED
  BY <1>0, <1>1, <1>2

\* The tick outside of process_batch keeps the invariant.
LEMMA TickStep ==
  ASSUME CoreInv,
         \/ WakeUp \/ CleanupTaskQueue \/ CreateNextBatch \/ ResetMustStop \/ StartProcessing
         \/ RetryBatch \/ WriteTasks \/ StopProcessing \/ Commit
  PROVE  CoreInv'
<1> USE DEF durable, shared, scheduler, budget
<1>0. /\ Good(db) /\ Ids \subseteq Enqueued(db) /\ Ids \subseteq Stored(db) /\ Ids \subseteq TaskIds
      /\ \A t \in Ids : db.all_tasks[t] = batch.tasks[t] /\ batch.tasks[t] \in Tasks
  BY CoreFacts
<1>1. ASSUME UNCHANGED client PROVE ClientKinds'
  BY <1>1 DEF CoreInv, ClientKinds
<1>2. CASE WakeUp
  <2>1. TypeOK' /\ QueueConsistent'
    BY <1>2 DEF WakeUp, CoreInv, TypeOK, ProgramCounters, Ids, QueueConsistent
  <2>2. BatchUpToDate' /\ BatchShape'
    BY <1>2, BatchKept DEF WakeUp, CoreInv, BatchShape
  <2> QED
    BY <1>1, <1>2, <2>1, <2>2 DEF WakeUp, CoreInv
<1>3. CASE CleanupTaskQueue
  <2>1. /\ pc = "cleanup" /\ pc' = "create_batch"
        /\ UNCHANGED <<files, next_file, indexes, snapshot, processing, must_stop, batch,
                       outcome, client, budget>>
    BY <1>3 DEF CleanupTaskQueue
  <2>2. Ids = {}
    BY <2>1 DEF CoreInv, BatchShape
  <2>3. wake_up' \in BOOLEAN
    BY <1>3 DEF CleanupTaskQueue, CoreInv, TypeOK
  <2>4. Good(db')
    <3>1. CASE NeedsCleanup /\ NextTaskId(db) \in TaskIds
      <4> DEFINE k == [Bare("TaskDeletion") EXCEPT !.tasks = TasksToCleanUp]
      <4>1. db' = RegisterTask(db, k) /\ NextTaskId(db) \in TaskIds
        BY <1>3, <3>1 DEF CleanupTaskQueue
      <4>2. TasksToCleanUp \in SUBSET TaskIds
        <5>1. \A s \in Finished : db.status[s] \subseteq TaskIds
          BY <1>0 DEF Good, Databases, Finished
        <5> QED
          BY <5>1 DEF TasksToCleanUp
      <4>3. k \in KindWithContent /\ OwnFields(k) /\ k.swaps = {}
        BY <4>2, KindFacts
      <4>4. ValidSwaps(k.swaps)
        BY <4>3 DEF ValidSwaps
      <4> QED
        BY <1>0, <4>1, <4>3, <4>4, RegisterGood
    <3>2. CASE ~(NeedsCleanup /\ NextTaskId(db) \in TaskIds)
      BY <1>0, <1>3, <3>2 DEF CleanupTaskQueue
    <3> QED
      BY <3>1, <3>2
  <2>5. TypeOK' /\ QueueConsistent'
    BY <2>1, <2>3, <2>4 DEF CoreInv, TypeOK, ProgramCounters, Ids, QueueConsistent, Good
  <2>6. BatchUpToDate' /\ BatchShape'
    BY <2>1, <2>2, BatchKept DEF CoreInv, BatchShape
  <2> QED
    BY <1>1, <2>1, <2>5, <2>6 DEF CoreInv
<1>4. CASE CreateNextBatch
  <2>1. pc = "create_batch" /\ UNCHANGED <<durable, shared, outcome, client, budget>>
    BY <1>4 DEF CreateNextBatch
  <2>2. Ids = {}
    BY <2>1 DEF CoreInv, BatchShape
  <2>3. CASE Enqueued(db) = {}
    <3>1. pc' = "wait" /\ UNCHANGED batch
      BY <1>4, <2>3 DEF CreateNextBatch
    <3>2. TypeOK' /\ QueueConsistent'
      BY <2>1, <3>1 DEF CoreInv, TypeOK, ProgramCounters, Ids, QueueConsistent
    <3>3. BatchUpToDate' /\ BatchShape'
      BY <2>1, <2>2, <3>1, BatchKept DEF CoreInv, BatchShape
    <3> QED
      BY <1>1, <2>1, <3>2, <3>3 DEF CoreInv
  <2>4. CASE Enqueued(db) # {}
    <3>1. pc' = "reset_must_stop" /\ batch' = NextBatch
      BY <1>4, <2>4 DEF CreateNextBatch
    <3>2. GoodBatch(NextBatch)
      BY <1>0, <2>4, NextBatchGood
    <3>3. /\ Ids' # {} /\ Ids' \subseteq Enqueued(db)
          /\ \A t \in Ids' : batch'.tasks[t] = db.all_tasks[t]
          /\ batch'.type \in {"TaskCancelation", "IndexSwap"} => \E t \in TaskIds : Ids' = {t}
          /\ batch'.type = "IndexSwap" => \A t \in Ids' : \A u \in Enqueued(db) : t <= u
          /\ batch'.type \in IndexBatches =>
               batch'.index \in IndexNames /\ \A t \in Ids' : batch'.tasks[t].kind.index = batch'.index
      BY <3>1, <3>2 DEF GoodBatch, Ids
    <3>4. \A t \in Ids' : /\ t \in TaskIds /\ db.all_tasks[t] \in Tasks
                          /\ db.all_tasks[t].status = "Enqueued"
      BY <1>0, <3>3, GoodFacts
    <3>5. BatchUpToDate' /\ BatchShape'
      BY <2>1, <3>1, <3>3, <3>4 DEF BatchUpToDate, BatchShape
    <3>6. outcome'.result = "Pending" /\ outcome'.unlink \subseteq FileIds
      BY <2>1 DEF CoreInv, TypeOK, BatchShape
    <3>7. TypeOK' /\ QueueConsistent'
      BY <2>1, <3>1, <3>3, <3>4, <3>6 DEF CoreInv, TypeOK, ProgramCounters, QueueConsistent
    <3> QED
      BY <1>1, <2>1, <3>5, <3>7 DEF CoreInv
  <2> QED
    BY <2>3, <2>4
<1>5. CASE ResetMustStop
  <2>1. TypeOK' /\ QueueConsistent'
    BY <1>5 DEF ResetMustStop, CoreInv, TypeOK, ProgramCounters, Ids, QueueConsistent
  <2>2. BatchUpToDate' /\ BatchShape'
    BY <1>5, BatchKept DEF ResetMustStop, CoreInv, BatchShape
  <2> QED
    BY <1>1, <1>5, <2>1, <2>2 DEF ResetMustStop, CoreInv
<1>6. CASE StartProcessing
  <2>1. TypeOK' /\ QueueConsistent'
    BY <1>0, <1>6 DEF StartProcessing, CoreInv, TypeOK, ProgramCounters, Ids, QueueConsistent
  <2>2. BatchUpToDate' /\ BatchShape'
    BY <1>6, BatchKept DEF StartProcessing, CoreInv, BatchShape
  <2> QED
    BY <1>1, <1>6, <2>1, <2>2 DEF StartProcessing, CoreInv
<1>7. CASE RetryBatch
  <2>1. EndOfTick /\ UNCHANGED <<durable, shared, client, budget>>
    BY <1>7 DEF RetryBatch
  <2>2. /\ Ids' = {} /\ BatchUpToDate' /\ BatchShape' /\ pc' = "cleanup"
        /\ outcome'.result = "Pending" /\ outcome'.unlink = {}
    BY <2>1, EndOfTickShape
  <2>3. TypeOK' /\ QueueConsistent'
    BY <2>1, <2>2 DEF CoreInv, TypeOK, ProgramCounters, QueueConsistent
  <2> QED
    BY <1>1, <2>1, <2>2, <2>3 DEF CoreInv
<1>8. CASE WriteTasks
  <2>1. /\ pc = "write" /\ pc' = "stop_processing" /\ files' \subseteq files
        /\ UNCHANGED <<db, next_file, indexes, snapshot, shared, batch, outcome, client, budget>>
    BY <1>8 DEF WriteTasks
  <2>2. TypeOK' /\ QueueConsistent'
    BY <2>1 DEF CoreInv, TypeOK, ProgramCounters, Ids, QueueConsistent
  <2>3. BatchUpToDate' /\ BatchShape'
    BY <2>1, BatchKept DEF CoreInv, BatchShape
  <2> QED
    BY <1>1, <2>1, <2>2, <2>3 DEF CoreInv
<1>9. CASE StopProcessing
  <2>1. TypeOK' /\ QueueConsistent'
    BY <1>9 DEF StopProcessing, CoreInv, TypeOK, ProgramCounters, Ids, QueueConsistent
  <2>2. BatchUpToDate' /\ BatchShape'
    BY <1>9, BatchKept DEF StopProcessing, CoreInv, BatchShape
  <2> QED
    BY <1>1, <1>9, <2>1, <2>2 DEF StopProcessing, CoreInv
<1>10. CASE Commit
  <2>1. /\ EndOfTick /\ db' = UpdateTasks(db, UpdatedTasks)
        /\ UNCHANGED <<files, next_file, indexes, snapshot, shared, client, budget>>
    BY <1>10 DEF Commit
  <2>2. /\ Ids' = {} /\ BatchUpToDate' /\ BatchShape' /\ pc' = "cleanup"
        /\ outcome'.result = "Pending" /\ outcome'.unlink = {}
    BY <2>1, EndOfTickShape
  <2>3. Good(db')
    BY <1>0, <2>1, UpdateGood, UpdatedVersions
  <2>4. TypeOK' /\ QueueConsistent'
    BY <2>1, <2>2, <2>3 DEF CoreInv, TypeOK, ProgramCounters, QueueConsistent, Good
  <2> QED
    BY <1>1, <2>1, <2>2, <2>4 DEF CoreInv
<1> QED
  BY <1>2, <1>3, <1>4, <1>5, <1>6, <1>7, <1>8, <1>9, <1>10

\* A well-typed result of process_batch for the current batch.
GoodOutcome(o) ==
  /\ o.result \in {"Pending", "Ok", "Failed", "Aborted", "Full"}
  /\ o.result = "Ok" =>
       DOMAIN o.status = Ids /\ \A t \in Ids : o.status[t] \in {"Succeeded", "Failed"}
  /\ o.unlink \subseteq FileIds

\* A step of process_batch that leaves the tasks of its batch alone keeps the
\* invariant.
LEMMA ProcessKept ==
  ASSUME CoreInv, UNCHANGED <<batch, client, shared, next_file, crashes, faults>>,
         pc \notin {"wait", "cleanup", "create_batch"},
         pc' \in ProgramCounters \ {"wait", "cleanup", "create_batch"},
         GoodOutcome(outcome'), Good(db'),
         \A t \in Ids : db'.all_tasks[t] = db.all_tasks[t],
         Enqueued(db') \subseteq Enqueued(db),
         files' \subseteq files, indexes' \in [TaskIds -> IndexEnvs],
         snapshot' \in [complete: BOOLEAN, db: Databases, files: SUBSET FileIds],
         resizes' \in 0 .. MaxResizes,
         pc' = "apply" => batch.type = "IndexOperation" /\ db'.index_mapping[batch.index] # None,
         pc' = "update" => batch.type = "IndexCreation",
         pc' = "unlink_canceled" => outcome'.result = "Ok"
  PROVE  CoreInv'
<1>1. Ids' = Ids
  BY DEF Ids
<1>2. /\ outcome'.result \in {"Pending", "Ok", "Failed", "Aborted", "Full"}
      /\ outcome'.result = "Ok" =>
           DOMAIN outcome'.status = Ids /\ \A t \in Ids : outcome'.status[t] \in {"Succeeded", "Failed"}
      /\ outcome'.unlink \subseteq FileIds
  BY DEF GoodOutcome
<1>3. db' \in Databases /\ QueueConsistent'
  BY DEF Good, QueueConsistent
<1>4. TypeOK'
  BY <1>1, <1>2, <1>3 DEF CoreInv, TypeOK, shared
<1>5. BatchUpToDate' /\ BatchShape'
  <2>1. batch.type = "IndexSwap" => \A t \in Ids : \A u \in Enqueued(db') : t <= u
    BY DEF CoreInv, BatchShape
  <2> QED
    BY <2>1, BatchKept
<1>6. ClientKinds'
  BY DEF CoreInv, ClientKinds
<1> QED
  BY <1>3, <1>4, <1>5, <1>6 DEF CoreInv

\* The results that process_batch returns are well typed.
LEMMA OutcomeFacts ==
  /\ \A e \in {"Failed", "Aborted", "Full"} : GoodOutcome(Err(e))
  /\ GoodOutcome(AllSucceeded)
  /\ \A st, files_ : /\ DOMAIN st = Ids /\ \A t \in Ids : st[t] \in {"Succeeded", "Failed"}
                     /\ files_ \subseteq FileIds
                     => GoodOutcome(Outcome("Ok", st, files_)) /\ Outcome("Ok", st, files_).result = "Ok"
<1>1. \A e \in {"Failed", "Aborted", "Full"} : GoodOutcome(Err(e))
  BY DEF GoodOutcome, Err, Outcome
<1>2. GoodOutcome(AllSucceeded)
  BY DEF GoodOutcome, AllSucceeded, Outcome
<1>3. ASSUME NEW st, NEW f, DOMAIN st = Ids, \A t \in Ids : st[t] \in {"Succeeded", "Failed"},
             f \subseteq FileIds
      PROVE  GoodOutcome(Outcome("Ok", st, f)) /\ Outcome("Ok", st, f).result = "Ok"
  BY <1>3 DEF GoodOutcome, Outcome
<1> QED
  BY <1>1, <1>2, <1>3

\* The environments of indexes keep their type.
LEMMA IndexTypes ==
  ASSUME CoreInv, NEW u \in TaskIds
  PROVE  /\ \A docs \in SUBSET TaskIds, pk \in PrimaryKeys \cup {None} :
              [indexes EXCEPT ![u] = Index(docs, pk)] \in [TaskIds -> IndexEnvs]
         /\ [indexes EXCEPT ![u] = NewIndex] \in [TaskIds -> IndexEnvs]
         /\ indexes[u].docs \subseteq TaskIds /\ indexes[u].pk \in PrimaryKeys \cup {None}
<1>1. \A docs \in SUBSET TaskIds, pk \in PrimaryKeys \cup {None} : Index(docs, pk) \in IndexEnvs
  BY DEF Index, IndexEnvs
<1>2. NewIndex \in IndexEnvs
  BY <1>1 DEF NewIndex
<1>3. indexes \in [TaskIds -> IndexEnvs]
  BY DEF CoreInv, TypeOK
<1>4. indexes[u].docs \subseteq TaskIds /\ indexes[u].pk \in PrimaryKeys \cup {None}
  BY <1>3 DEF IndexEnvs
<1> QED
  BY <1>1, <1>2, <1>3, <1>4

\* A batch of one task, and what its kind guarantees.
LEMMA SingleTask ==
  ASSUME CoreInv, batch.type \in {"TaskCancelation", "IndexSwap"}
  PROVE  /\ Ids = {TheTask} /\ TheTask \in TaskIds /\ TheTask \in Stored(db)
         /\ TheTask \notin TheKind.tasks
         /\ TheKind.swaps \in SUBSET (IndexNames \X IndexNames) /\ ValidSwaps(TheKind.swaps)
<1>0. /\ Good(db) /\ Ids \subseteq Stored(db)
      /\ \A t \in Ids : db.all_tasks[t] = batch.tasks[t] /\ batch.tasks[t] \in Tasks
  BY CoreFacts
<1>1. PICK t \in TaskIds : Ids = {t}
  BY DEF CoreInv, BatchShape
<1>2. TheTask = t
  BY <1>1 DEF TheTask
<1>3. TheKind = db.all_tasks[t].kind /\ TheKind \in KindWithContent
  BY <1>0, <1>1, <1>2 DEF TheKind, Tasks
<1>4. TheKind.tasks \subseteq 0 .. t - 1 /\ ValidSwaps(TheKind.swaps)
  BY <1>0, <1>1, <1>3 DEF Good, InternallyConsistent, TasksConsistent
<1>5. t \notin 0 .. t - 1
  BY BoundsAssumption DEF TaskIds
<1>6. TheKind.swaps \in SUBSET (IndexNames \X IndexNames)
  BY <1>3 DEF KindWithContent
<1> QED
  BY <1>0, <1>1, <1>2, <1>4, <1>5, <1>6

\* process_batch keeps the invariant when it is not about one index.
LEMMA GlobalStep ==
  ASSUME CoreInv,
         \/ ProcessFails \/ IndexIsFull \/ ProcessCancelation \/ UnlinkCanceled
         \/ ProcessDeletion \/ CopyEnv \/ CopyFiles \/ ProcessDump \/ AbortIndexation
         \/ ProcessIndexSwap
  PROVE  CoreInv'
<1> USE DEF durable, shared, budget, Return, Processing
<1>0. /\ Good(db) /\ Ids \subseteq Enqueued(db) /\ Ids \subseteq Stored(db) /\ Ids \subseteq TaskIds
      /\ \A t \in Ids : db.all_tasks[t] = batch.tasks[t] /\ batch.tasks[t] \in Tasks
  BY CoreFacts
<1>1. /\ files \subseteq files /\ indexes \in [TaskIds -> IndexEnvs]
      /\ snapshot \in [complete: BOOLEAN, db: Databases, files: SUBSET FileIds]
      /\ resizes \in 0 .. MaxResizes
      /\ db \in Databases
  BY DEF CoreInv, TypeOK
<1>2. "write" \in ProgramCounters /\ "copy_files" \in ProgramCounters
      /\ "unlink_canceled" \in ProgramCounters
  BY DEF ProgramCounters
<1>3. CASE ProcessFails \/ ProcessDump \/ AbortIndexation
  <2>1. /\ pc \notin {"wait", "cleanup", "create_batch"} /\ pc' = "write"
        /\ UNCHANGED <<durable, shared, batch, client, budget>>
    BY <1>3 DEF ProcessFails, ProcessDump, AbortIndexation
  <2>2. GoodOutcome(outcome')
    BY <1>3, OutcomeFacts DEF ProcessFails, ProcessDump, AbortIndexation
  <2> QED
    BY <1>0, <1>1, <1>2, <2>1, <2>2, ProcessKept
<1>4. CASE IndexIsFull
  <2>1. /\ pc \notin {"wait", "cleanup", "create_batch"} /\ pc' = "write"
        /\ UNCHANGED <<durable, shared, batch, client, crashes, faults>>
        /\ outcome' = Err("Full")
    BY <1>4 DEF IndexIsFull
  <2>2. resizes' \in 0 .. MaxResizes
    BY <1>1, <1>4, LimitsAssumption DEF IndexIsFull
  <2> QED
    BY <1>0, <1>1, <1>2, <2>1, <2>2, ProcessKept, OutcomeFacts
<1>5. CASE ProcessCancelation
  <2> DEFINE unlink == ContentFiles(db, TasksToCancel(db, TheKind.tasks))
             st == [t \in Ids |-> "Succeeded"]
  <2>1. /\ pc = "process" /\ pc' = "unlink_canceled" /\ batch.type = "TaskCancelation"
        /\ db' = CancelMatchedTasks(db, TheTask, TheKind.tasks, batch.previous)
        /\ outcome' = Outcome("Ok", st, unlink)
        /\ UNCHANGED <<files, next_file, indexes, snapshot, shared, batch, client, budget>>
    BY <1>5 DEF ProcessCancelation
  <2>2. Ids = {TheTask} /\ TheTask \in TaskIds /\ TheTask \notin TheKind.tasks
    BY <2>1, SingleTask
  <2>3. Good(db')
    BY <1>0, <2>1, <2>2, CancelGood
  <2>4. /\ \A t \in Ids : db'.all_tasks[t] = db.all_tasks[t]
        /\ Enqueued(db') \subseteq Enqueued(db)
    BY <1>0, <2>1, <2>2, CancelFrame
  <2>5. unlink \subseteq FileIds
    <3>1. TasksToCancel(db, TheKind.tasks) \in SUBSET Stored(db)
      BY <1>0, GoodFacts DEF TasksToCancel
    <3> QED
      BY <1>0, <3>1, ContentFilesType
  <2>6. GoodOutcome(outcome') /\ outcome'.result = "Ok"
    <3>1. DOMAIN st = Ids /\ \A t \in Ids : st[t] \in {"Succeeded", "Failed"}
      OBVIOUS
    <3> HIDE DEF st, unlink
    <3> QED
      BY <2>1, <2>5, <3>1, OutcomeFacts
  <2> QED
    BY <1>1, <1>2, <2>1, <2>3, <2>4, <2>6, ProcessKept
<1>6. CASE UnlinkCanceled
  <2>1. /\ pc = "unlink_canceled" /\ pc' = "write" /\ files' \subseteq files
        /\ outcome' = Outcome("Ok", outcome.status, {})
        /\ UNCHANGED <<db, next_file, indexes, snapshot, shared, batch, client, budget>>
    BY <1>6 DEF UnlinkCanceled
  <2>2. /\ DOMAIN outcome.status = Ids
        /\ \A t \in Ids : outcome.status[t] \in {"Succeeded", "Failed"}
    BY <2>1 DEF CoreInv, BatchShape, TypeOK
  <2>3. GoodOutcome(outcome')
    BY <2>1, <2>2, OutcomeFacts
  <2> QED
    BY <1>0, <1>1, <1>2, <2>1, <2>3, ProcessKept
<1>7. CASE ProcessDeletion
  <2>1. /\ pc = "process" /\ pc' = "write" /\ outcome' = AllSucceeded
        /\ db' = DeleteMatchedTasks(db, TheKind.tasks, processing)
        /\ UNCHANGED <<files, next_file, indexes, snapshot, shared, batch, client, budget>>
    BY <1>7 DEF ProcessDeletion
  <2>2. Good(db')
    BY <1>0, <2>1, DeleteGood
  <2>3. /\ Stored(db') = Stored(db) \ TasksToDelete(db, TheKind.tasks, processing)
        /\ \A t \in Stored(db') : db'.all_tasks[t] = db.all_tasks[t]
        /\ Enqueued(db') = Enqueued(db)
    BY <1>0, <2>1, DeleteFrame
  <2>4. \A t \in Ids : t \in Stored(db')
    BY <1>0, <2>3 DEF TasksToDelete
  <2> QED
    BY <1>1, <1>2, <2>1, <2>2, <2>3, <2>4, ProcessKept, OutcomeFacts
<1>8. CASE CopyEnv
  <2>1. /\ pc = "process" /\ pc' = "copy_files"
        /\ snapshot' = [complete |-> FALSE, db |-> db, files |-> {}]
        /\ UNCHANGED <<db, files, next_file, indexes, shared, batch, outcome, client, budget>>
    BY <1>8 DEF CopyEnv
  <2>2. snapshot' \in [complete: BOOLEAN, db: Databases, files: SUBSET FileIds]
    BY <1>1, <2>1
  <2>3. GoodOutcome(outcome')
    BY <2>1 DEF CoreInv, TypeOK, GoodOutcome
  <2> QED
    BY <1>0, <1>1, <1>2, <2>1, <2>2, <2>3, ProcessKept
<1>9. CASE CopyFiles
  <2> DEFINE wanted == ContentFiles(db, Enqueued(db))
  <2>1. /\ pc = "copy_files" /\ pc' = "write" /\ outcome' \in {AllSucceeded, Err("Failed")}
        /\ \/ UNCHANGED snapshot
           \/ snapshot' = [complete |-> TRUE, db |-> snapshot.db, files |-> wanted]
        /\ UNCHANGED <<db, files, next_file, indexes, shared, batch, client, budget>>
    BY <1>9 DEF CopyFiles
  <2>2. wanted \subseteq FileIds
    BY <1>0, GoodFacts, ContentFilesType
  <2>3. snapshot' \in [complete: BOOLEAN, db: Databases, files: SUBSET FileIds]
    <3> HIDE DEF wanted
    <3>1. snapshot.db \in Databases
      BY <1>1
    <3>2. [complete |-> TRUE, db |-> snapshot.db, files |-> wanted]
            \in [complete: BOOLEAN, db: Databases, files: SUBSET FileIds]
      BY <2>2, <3>1
    <3>3. CASE UNCHANGED snapshot
      BY <1>1, <3>3
    <3>4. CASE snapshot' = [complete |-> TRUE, db |-> snapshot.db, files |-> wanted]
      BY <3>2, <3>4
    <3> QED
      BY <2>1, <3>3, <3>4
  <2>4. GoodOutcome(outcome')
    BY <2>1, OutcomeFacts
  <2> QED
    BY <1>0, <1>1, <1>2, <2>1, <2>3, <2>4, ProcessKept
<1>10. CASE ProcessIndexSwap
  <2>1. /\ pc = "process" /\ pc' = "write" /\ batch.type = "IndexSwap"
        /\ outcome' \in {AllSucceeded, Err("Failed")}
        /\ db' = db \/ db' = ApplyIndexSwaps(db, TheTask, TheKind.swaps)
        /\ UNCHANGED <<files, next_file, indexes, snapshot, shared, batch, client, budget>>
    BY <1>10 DEF ProcessIndexSwap
  <2>2. /\ Ids = {TheTask} /\ TheTask \in TaskIds
        /\ TheKind.swaps \in SUBSET (IndexNames \X IndexNames) /\ ValidSwaps(TheKind.swaps)
    BY <2>1, SingleTask
  <2>3. Good(db')
    BY <1>0, <2>1, <2>2, SwapGood
  <2>4. ~ (TheTask < TheTask)
    BY <2>2, BoundsAssumption DEF TaskIds
  <2>5. /\ \A t \in Ids : db'.all_tasks[t] = db.all_tasks[t]
        /\ Enqueued(db') = Enqueued(db)
    BY <1>0, <2>1, <2>2, <2>4, SwapFrame
  <2>6. GoodOutcome(outcome')
    BY <2>1, OutcomeFacts
  <2> QED
    BY <1>1, <1>2, <2>1, <2>3, <2>5, <2>6, ProcessKept
<1> QED
  BY <1>3, <1>4, <1>5, <1>6, <1>7, <1>8, <1>9, <1>10

\* The uuid of an index that is there, and the one a new index gets.
LEMMA UuidFacts ==
  ASSUME CoreInv, batch.type \in IndexBatches, pc \notin {"wait", "cleanup", "create_batch"}
  PROVE  /\ batch.index \in IndexNames
         /\ Uuid # None => Uuid \in TaskIds
         /\ Lowest(Ids) \in Ids /\ Lowest(Ids) \in TaskIds /\ Lowest(Ids) # None
<1>0. Good(db) /\ Ids \subseteq TaskIds
  BY CoreFacts
<1>1. batch.index \in IndexNames /\ Ids # {}
  BY DEF CoreInv, BatchShape
<1>2. Uuid \in TaskIds \cup {None}
  BY <1>0, <1>1 DEF Good, Databases, Uuid
<1>3. Ids \in SUBSET Nat
  BY <1>0, BoundsAssumption DEF TaskIds
<1>4. Lowest(Ids) \in Ids
  BY <1>1, <1>3, LowestFacts
<1> QED
  BY <1>0, <1>1, <1>2, <1>4, NoneAssumption

\* Creating or deleting the index of the batch changes no task.
LEMMA MappingStep ==
  ASSUME CoreInv, batch.index \in IndexNames, NEW u \in TaskIds \cup {None},
         db' = PutMapping(db, batch.index, u)
  PROVE  /\ Good(db') /\ Enqueued(db') \subseteq Enqueued(db)
         /\ \A t \in Ids : db'.all_tasks[t] = db.all_tasks[t]
         /\ db'.index_mapping[batch.index] = u
<1>0. Good(db)
  BY CoreFacts
<1>1. Good(db')
  BY <1>0, MappingGood
<1>2. /\ db'.all_tasks = db.all_tasks /\ db'.status = db.status
      /\ db'.index_mapping = [db.index_mapping EXCEPT ![batch.index] = u]
  BY <1>0 DEF PutMapping, Good, Databases
<1>3. DOMAIN db.index_mapping = IndexNames
  BY <1>0 DEF Good, Databases
<1> QED
  BY <1>1, <1>2, <1>3 DEF Enqueued

\* process_batch keeps the invariant when it is about one index.
LEMMA IndexStep ==
  ASSUME CoreInv,
         \/ OpenIndex \/ ApplyOperation \/ ApplyDocumentOperation \/ ProcessDeletionByFilter
         \/ ProcessIndexCreation \/ ProcessIndexUpdate \/ ProcessIndexDeletion
  PROVE  CoreInv'
<1> USE DEF shared, budget, Return, Processing
<1>0. /\ Good(db) /\ Ids \subseteq TaskIds /\ Enqueued(db) \subseteq Enqueued(db)
      /\ \A t \in Ids : batch.tasks[t] \in Tasks
      /\ indexes \in [TaskIds -> IndexEnvs] /\ files \subseteq files
      /\ snapshot \in [complete: BOOLEAN, db: Databases, files: SUBSET FileIds]
      /\ resizes \in 0 .. MaxResizes
  BY CoreFacts DEF CoreInv, TypeOK
<1>1. /\ {"write", "apply", "update"} \subseteq ProgramCounters
      /\ pc \in {"process", "apply", "update"}
      /\ batch.type \in IndexBatches
  <2>1. pc = "process" => batch.type \in IndexBatches
    BY DEF OpenIndex, ApplyOperation, ApplyDocumentOperation, ProcessDeletionByFilter,
           ProcessIndexCreation, ProcessIndexUpdate, ProcessIndexDeletion, IndexBatches
  <2>2. pc \in {"process", "apply", "update"}
    BY DEF OpenIndex, ApplyOperation, ApplyDocumentOperation, ProcessDeletionByFilter,
           ProcessIndexCreation, ProcessIndexUpdate, ProcessIndexDeletion
  <2> QED
    BY <2>1, <2>2 DEF CoreInv, BatchShape, IndexBatches, ProgramCounters
<1>2. /\ batch.index \in IndexNames
      /\ Uuid # None => Uuid \in TaskIds
      /\ Lowest(Ids) \in Ids /\ Lowest(Ids) \in TaskIds /\ Lowest(Ids) # None
  BY <1>1, UuidFacts
<1>3. pc = "apply" => batch.type = "IndexOperation" /\ Uuid \in TaskIds
  BY <1>2 DEF CoreInv, BatchShape
<1>4. UNCHANGED <<batch, client, shared, next_file, files, snapshot, crashes, faults, resizes>>
  BY DEF OpenIndex, ApplyOperation, ApplyDocumentOperation, ProcessDeletionByFilter,
         ProcessIndexCreation, ProcessIndexUpdate, ProcessIndexDeletion
\* Without a change to the queue, only the result and the index have to be typed.
<1>5. ASSUME UNCHANGED db, pc' = "write", GoodOutcome(outcome'),
             indexes' \in [TaskIds -> IndexEnvs]
      PROVE  CoreInv'
  BY <1>0, <1>1, <1>4, <1>5, ProcessKept
<1>6. ASSUME CreateIndex, UNCHANGED outcome,
             \/ pc' = "apply" /\ batch.type = "IndexOperation"
             \/ pc' = "update" /\ batch.type = "IndexCreation"
      PROVE  CoreInv'
  <2>1. /\ db' = PutMapping(db, batch.index, Lowest(Ids))
        /\ indexes' = [indexes EXCEPT ![Lowest(Ids)] = NewIndex]
    BY <1>6 DEF CreateIndex
  <2>2. /\ Good(db') /\ Enqueued(db') \subseteq Enqueued(db)
        /\ \A t \in Ids : db'.all_tasks[t] = db.all_tasks[t]
        /\ db'.index_mapping[batch.index] = Lowest(Ids)
    BY <1>2, <2>1, MappingStep
  <2>3. indexes' \in [TaskIds -> IndexEnvs]
    BY <1>2, <2>1, IndexTypes
  <2>4. GoodOutcome(outcome')
    BY <1>6 DEF CoreInv, TypeOK, GoodOutcome
  <2> QED
    BY <1>0, <1>1, <1>2, <1>4, <1>6, <2>2, <2>3, <2>4, ProcessKept
<1>7. CASE OpenIndex
  <2>1. CASE Uuid # None
    <3>1. pc' = "apply" /\ UNCHANGED <<db, indexes, outcome>> /\ batch.type = "IndexOperation"
      BY <1>7, <2>1 DEF OpenIndex
    <3>2. GoodOutcome(outcome')
      BY <3>1 DEF CoreInv, TypeOK, GoodOutcome
    <3>3. db'.index_mapping[batch.index] # None
      BY <2>1, <3>1 DEF Uuid
    <3> QED
      BY <1>0, <1>1, <1>4, <3>1, <3>2, <3>3, ProcessKept
  <2>2. CASE Uuid = None /\ batch.create
    <3>1. pc' = "apply" /\ CreateIndex /\ UNCHANGED outcome /\ batch.type = "IndexOperation"
      BY <1>7, <2>2 DEF OpenIndex
    <3> QED
      BY <1>6, <3>1
  <2>3. CASE Uuid = None /\ ~batch.create
    <3>1. pc' = "write" /\ outcome' = Err("Failed") /\ UNCHANGED <<db, indexes>>
      BY <1>7, <2>3 DEF OpenIndex
    <3> QED
      BY <1>0, <1>5, <3>1, OutcomeFacts
  <2> QED
    BY <2>1, <2>2, <2>3
<1>8. CASE ApplyOperation
  <2>1. pc = "apply" /\ pc' = "write" /\ outcome' = AllSucceeded /\ UNCHANGED db
    BY <1>8 DEF ApplyOperation
  <2>2. indexes[Uuid].docs \subseteq TaskIds /\ indexes[Uuid].pk \in PrimaryKeys \cup {None}
    BY <1>3, <2>1, IndexTypes
  <2>3. \E kept : /\ kept \in SUBSET indexes[Uuid].docs
                   /\ indexes' = [indexes EXCEPT ![Uuid] = Index(kept, @.pk)]
    BY <1>8 DEF ApplyOperation
  <2>4. PICK kept \in SUBSET indexes[Uuid].docs :
          indexes' = [indexes EXCEPT ![Uuid] = Index(kept, indexes[Uuid].pk)]
    BY <2>3
  <2>5. indexes' \in [TaskIds -> IndexEnvs]
    BY <1>3, <2>1, <2>2, <2>4, IndexTypes
  <2> QED
    BY <1>5, <2>1, <2>5, OutcomeFacts
<1>9. CASE ApplyDocumentOperation
  <2> DEFINE index == indexes[Uuid]
             refused == \/ BatchPrimaryKey # None /\ index.pk \notin {None, BatchPrimaryKey}
                        \/ \E t \in Additions : batch.tasks[t].kind.file \notin files
  <2>1. pc = "apply" /\ pc' = "write" /\ UNCHANGED db
    BY <1>9 DEF ApplyDocumentOperation
  <2>2. index.docs \subseteq TaskIds
    BY <1>3, <2>1, IndexTypes
  <2>3. CASE refused
    <3>1. outcome' = Err("Failed") /\ UNCHANGED indexes
      BY <1>9, <2>3 DEF ApplyDocumentOperation
    <3> QED
      BY <1>0, <1>5, <2>1, <3>1, OutcomeFacts
  <2>4. CASE ~refused
    <3>1. PICK failed, indexed \in SUBSET Additions, key \in PrimaryKeys :
            /\ outcome' = Outcome("Ok", [t \in Ids |-> IF t \in failed THEN "Failed" ELSE "Succeeded"],
                                 {})
            /\ \E docs \in SUBSET (index.docs \cup indexed), pk \in {key, index.pk} :
                 indexes' = [indexes EXCEPT ![Uuid] = Index(docs, pk)]
      BY <1>9, <2>4 DEF ApplyDocumentOperation
    <3>2. PICK docs \in SUBSET (index.docs \cup indexed), pk \in {key, index.pk} :
            indexes' = [indexes EXCEPT ![Uuid] = Index(docs, pk)]
      BY <3>1
    <3> DEFINE st == [t \in Ids |-> IF t \in failed THEN "Failed" ELSE "Succeeded"]
    <3>3. DOMAIN st = Ids /\ \A t \in Ids : st[t] \in {"Succeeded", "Failed"}
      OBVIOUS
    <3>4. outcome' = Outcome("Ok", st, {})
      BY <3>1
    <3> HIDE DEF st
    <3>5. Uuid \in TaskIds
      BY <1>3, <2>1
    <3>6. docs \in SUBSET TaskIds /\ pk \in PrimaryKeys \cup {None}
      <4>1. Additions \subseteq TaskIds
        BY <1>0 DEF Additions
      <4> QED
        BY <2>2, <3>5, <4>1, IndexTypes
    <3>7. GoodOutcome(outcome')
      BY <3>3, <3>4, OutcomeFacts
    <3>8. indexes' \in [TaskIds -> IndexEnvs]
      BY <3>2, <3>5, <3>6, IndexTypes
    <3> QED
      BY <1>5, <2>1, <3>7, <3>8
  <2> QED
    BY <2>3, <2>4
<1>10. CASE ProcessDeletionByFilter
  <2>1. pc' = "write" /\ UNCHANGED db
    BY <1>10 DEF ProcessDeletionByFilter
  <2>2. CASE Uuid = None
    BY <1>0, <1>5, <1>10, <2>1, <2>2, OutcomeFacts DEF ProcessDeletionByFilter
  <2>3. CASE Uuid # None /\ outcome' = Outcome("Ok", [t \in Ids |-> "Failed"], {}) /\ UNCHANGED indexes
    <3> DEFINE st == [t \in Ids |-> "Failed"]
    <3>1. DOMAIN st = Ids /\ \A t \in Ids : st[t] \in {"Succeeded", "Failed"}
      OBVIOUS
    <3>2. outcome' = Outcome("Ok", st, {})
      BY <2>3
    <3> HIDE DEF st
    <3>3. GoodOutcome(outcome')
      BY <3>1, <3>2, OutcomeFacts
    <3> QED
      BY <1>0, <1>5, <2>1, <2>3, <3>3
  <2>4. CASE /\ Uuid # None /\ outcome' = AllSucceeded
             /\ \E kept \in SUBSET indexes[Uuid].docs :
                  indexes' = [indexes EXCEPT ![Uuid] = Index(kept, @.pk)]
    <3>1. PICK kept \in SUBSET indexes[Uuid].docs :
            indexes' = [indexes EXCEPT ![Uuid] = Index(kept, indexes[Uuid].pk)]
      BY <2>4
    <3>2. indexes' \in [TaskIds -> IndexEnvs]
      BY <1>2, <2>4, <3>1, IndexTypes
    <3> QED
      BY <1>5, <2>1, <2>4, <3>2, OutcomeFacts
  <2> QED
    BY <1>10, <2>2, <2>3, <2>4 DEF ProcessDeletionByFilter
<1>11. CASE ProcessIndexCreation
  <2>1. CASE Uuid # None
    BY <1>0, <1>5, <1>11, <2>1, OutcomeFacts DEF ProcessIndexCreation
  <2>2. CASE Uuid = None
    BY <1>6, <1>11, <2>2 DEF ProcessIndexCreation
  <2> QED
    BY <2>1, <2>2
<1>12. CASE ProcessIndexUpdate
  <2> DEFINE pk == TheKind.pk
  <2>1. pc' = "write" /\ UNCHANGED db /\ outcome' \in {Err("Failed"), AllSucceeded}
    BY <1>12 DEF ProcessIndexUpdate
  <2>2. GoodOutcome(outcome')
    BY <2>1, OutcomeFacts
  <2>3. pk \in PrimaryKeys \cup {None}
    <3>1. TheTask \in Ids
      BY <1>2 DEF TheTask
    <3> QED
      BY <1>0, <3>1 DEF TheKind, Tasks, KindWithContent
  <2>4. \/ UNCHANGED indexes
        \/ /\ Uuid # None
           /\ indexes' = [indexes EXCEPT ![Uuid] = Index(indexes[Uuid].docs, pk)]
    BY <1>12 DEF ProcessIndexUpdate
  <2>5. indexes' \in [TaskIds -> IndexEnvs]
    <3> HIDE DEF pk
    <3> QED
      BY <1>0, <1>2, <2>3, <2>4, IndexTypes
  <2> QED
    BY <1>5, <2>1, <2>2, <2>5
<1>13. CASE ProcessIndexDeletion
  <2>1. pc' = "write" /\ outcome' \in {Err("Failed"), AllSucceeded}
    BY <1>13 DEF ProcessIndexDeletion
  <2>2. GoodOutcome(outcome')
    BY <2>1, OutcomeFacts
  <2>3. CASE Uuid = None
    BY <1>0, <1>5, <1>13, <2>1, <2>2, <2>3 DEF ProcessIndexDeletion
  <2>4. CASE Uuid # None
    <3>1. /\ db' = PutMapping(db, batch.index, None)
          /\ indexes' = [indexes EXCEPT ![Uuid] = NewIndex]
      BY <1>13, <2>4 DEF ProcessIndexDeletion
    <3>2. /\ Good(db') /\ Enqueued(db') \subseteq Enqueued(db)
          /\ \A t \in Ids : db'.all_tasks[t] = db.all_tasks[t]
      BY <1>2, <3>1, MappingStep
    <3>3. indexes' \in [TaskIds -> IndexEnvs]
      BY <1>2, <2>4, <3>1, IndexTypes
    <3> QED
      BY <1>0, <1>1, <1>4, <2>1, <2>2, <3>2, <3>3, ProcessKept
  <2> QED
    BY <2>3, <2>4
<1> QED
  BY <1>7, <1>8, <1>9, <1>10, <1>11, <1>12, <1>13

\* Errors outside of the batch and crashes keep the invariant.
LEMMA FaultStep ==
  ASSUME CoreInv, TickFails \/ UnlinkFails \/ WriteFails \/ CommitFails \/ Crash
  PROVE  CoreInv'
<1> USE DEF durable, shared, budget
<1>0. Good(db)
  BY CoreFacts
<1>1. ASSUME Fault PROVE faults' \in 0 .. MaxFaults
  BY <1>1, LimitsAssumption DEF Fault, CoreInv, TypeOK
<1>2. CASE TickFails
  <2>1. /\ pc \in {"cleanup", "create_batch"} /\ pc' = "cleanup" /\ Fault
        /\ UNCHANGED <<durable, shared, batch, outcome, client, crashes, resizes>>
    BY <1>2 DEF TickFails
  <2>2. TypeOK' /\ QueueConsistent' /\ ClientKinds'
    BY <1>1, <2>1 DEF CoreInv, TypeOK, ProgramCounters, Ids, QueueConsistent, ClientKinds
  <2>3. BatchUpToDate' /\ BatchShape'
    BY <2>1, BatchKept DEF CoreInv, BatchShape
  <2> QED
    BY <2>2, <2>3 DEF CoreInv
<1>3. CASE WriteFails \/ CommitFails
  <2>1. /\ EndOfTick /\ Fault /\ files' \subseteq files
        /\ UNCHANGED <<db, next_file, indexes, snapshot, shared, client, crashes, resizes>>
    BY <1>3 DEF WriteFails, CommitFails
  <2>2. /\ Ids' = {} /\ BatchUpToDate' /\ BatchShape' /\ pc' = "cleanup"
        /\ outcome'.result = "Pending" /\ outcome'.unlink = {}
    BY <2>1, EndOfTickShape
  <2>3. TypeOK' /\ QueueConsistent' /\ ClientKinds'
    BY <1>1, <2>1, <2>2 DEF CoreInv, TypeOK, ProgramCounters, QueueConsistent, ClientKinds
  <2> QED
    BY <2>2, <2>3 DEF CoreInv
<1>4. CASE Crash
  <2>1. /\ crashes' \in 0 .. MaxCrashes
        /\ processing' = {} /\ must_stop' = FALSE /\ wake_up' = TRUE
        /\ pc' = "wait" /\ batch' = NoBatch /\ outcome' = Pending
        /\ client' = [c \in Clients |-> Idle]
        /\ UNCHANGED <<db, files, next_file, indexes, faults, resizes>>
    BY <1>4, LimitsAssumption DEF Crash, CoreInv, TypeOK
  <2>2. snapshot' \in [complete: BOOLEAN, db: Databases, files: SUBSET FileIds]
    <3>1. NoSnapshot \in [complete: BOOLEAN, db: Databases, files: SUBSET FileIds]
      BY EmptyGood DEF NoSnapshot, Good
    <3>2. snapshot' \in {snapshot, NoSnapshot}
      BY <1>4 DEF Crash
    <3> QED
      BY <3>1, <3>2 DEF CoreInv, TypeOK
  <2>3. client' \in [Clients -> ClientStates] /\ ClientKinds'
    BY <2>1, KindFacts DEF Idle, At, ClientStates, ClientKinds
  <2>4. /\ Ids' = {} /\ batch'.type = "None"
        /\ outcome'.result = "Pending" /\ outcome'.unlink = {}
    BY <2>1 DEF Ids, NoBatch, Pending, Err, Outcome
  <2>5. TypeOK' /\ QueueConsistent'
    BY <2>1, <2>2, <2>3, <2>4 DEF CoreInv, TypeOK, ProgramCounters, QueueConsistent
  <2>6. BatchUpToDate' /\ BatchShape'
    BY <2>1, <2>4 DEF BatchUpToDate, BatchShape, IndexBatches
  <2> QED
    BY <2>3, <2>5, <2>6 DEF CoreInv
<1>5. CASE UnlinkFails
  <2>1. /\ pc \in {"unlink_canceled", "write"} /\ pc' \in {"write", "stop_processing"}
        /\ Fault /\ files' \subseteq files
        /\ UNCHANGED <<db, next_file, indexes, snapshot, shared, batch, client, crashes, resizes>>
    BY <1>5 DEF UnlinkFails, Return
  <2>2. Ids' = Ids
    BY <2>1 DEF Ids
  <2>3. \/ outcome' = Outcome("Ok", outcome.status, {}) /\ pc = "unlink_canceled"
        \/ UNCHANGED outcome
    BY <1>5 DEF UnlinkFails, Return
  <2>4. QueueConsistent' /\ ClientKinds'
    BY <2>1 DEF CoreInv, QueueConsistent, ClientKinds
  <2>5. /\ outcome'.result \in {"Pending", "Ok", "Failed", "Aborted", "Full"}
        /\ outcome'.result = "Ok" =>
             DOMAIN outcome'.status = Ids
             /\ \A t \in Ids : outcome'.status[t] \in {"Succeeded", "Failed"}
        /\ outcome'.unlink \subseteq FileIds
    BY <2>3 DEF CoreInv, TypeOK, BatchShape, Outcome
  <2>6. TypeOK'
    BY <1>1, <2>1, <2>2, <2>5 DEF CoreInv, TypeOK, ProgramCounters
  <2>7. BatchUpToDate' /\ BatchShape'
    BY <2>1, BatchKept DEF CoreInv, BatchShape
  <2> QED
    BY <2>4, <2>6, <2>7 DEF CoreInv
<1> QED
  BY <1>2, <1>3, <1>4, <1>5

\* The invariant is inductive.
LEMMA CoreNext == CoreInv /\ [Next]_vars => CoreInv'
<1> SUFFICES ASSUME CoreInv, [Next]_vars PROVE CoreInv'
  OBVIOUS
<1>1. CASE \E c \in Clients : Client(c)
  BY <1>1, ClientStep
<1>2. CASE Tick
  BY <1>2, TickStep, GlobalStep, IndexStep DEF Tick, ProcessBatch
<1>3. CASE TickFails \/ UnlinkFails \/ WriteFails \/ CommitFails \/ Crash
  BY <1>3, FaultStep
<1>4. CASE UNCHANGED vars
  <2>1. UNCHANGED <<db, files, next_file, indexes, snapshot, processing, must_stop, wake_up,
                    pc, batch, outcome, client, crashes, faults, resizes>>
    BY <1>4 DEF vars, durable, shared, scheduler, budget
  <2>2. Ids' = Ids
    BY <2>1 DEF Ids
  <2>3. TypeOK' /\ QueueConsistent' /\ ClientKinds'
    BY <2>1, <2>2 DEF CoreInv, TypeOK, QueueConsistent, ClientKinds
  <2>4. BatchUpToDate' /\ BatchShape'
    BY <2>1, <2>2 DEF CoreInv, BatchUpToDate, BatchShape, Uuid
  <2> QED
    BY <2>3, <2>4 DEF CoreInv
<1> QED
  BY <1>1, <1>2, <1>3, <1>4 DEF Next

\* The invariant holds in every reachable state.
THEOREM CoreInvariant == Spec => []CoreInv
  BY CoreInit, CoreNext, PTL DEF Spec

\* Every variable keeps its type.
THEOREM TypeCorrect == Spec => []TypeOK
<1>1. CoreInv => TypeOK
  BY DEF CoreInv
<1> QED
  BY <1>1, CoreInvariant, PTL

\* The bitmaps of the queue agree with the tasks after every transaction of every
\* thread, whatever crashes or fails (assert_internally_consistent).
THEOREM QueueAlwaysConsistent == Spec => []QueueConsistent
<1>1. CoreInv => QueueConsistent
  BY DEF CoreInv
<1> QED
  BY <1>1, CoreInvariant, PTL

\* What the tick read when it created its batch is still true when it writes the
\* tasks back, although clients, the cancelation itself and index swaps write to
\* the queue in between.
THEOREM BatchAlwaysUpToDate == Spec => []BatchUpToDate
<1>1. CoreInv => BatchUpToDate
  BY DEF CoreInv
<1> QED
  BY <1>1, CoreInvariant, PTL

\* The scheduler thread never panics in update_task: the tasks it writes back are
\* stored and have no date yet.
THEOREM UpdateSafe == Spec => []UpdateNeverPanics
<1>1. CoreInv => UpdateNeverPanics
  <2> SUFFICES ASSUME CoreInv PROVE CanUpdateTasks(db, UpdatedTasks)
    BY DEF UpdateNeverPanics
  <2>1. Good(db) /\ Ids \subseteq Enqueued(db) /\ Ids \subseteq Stored(db)
    BY CoreFacts
  <2>2. DOMAIN UpdatedTasks = Ids
    BY UpdatedVersions
  <2>3. \A t \in Ids : ~db.all_tasks[t].started_at /\ ~db.all_tasks[t].finished_at
    BY <2>1, GoodFacts
  <2> QED
    BY <2>1, <2>2, <2>3 DEF CanUpdateTasks
<1> QED
  BY <1>1, CoreInvariant, PTL
=============================================================================
