---------------------------- MODULE IndexMapper -----------------------------
(***************************************************************************)
(* The index mapper (index-scheduler/src/index_mapper): how threads get at *)
(* the environment of an index while the scheduler creates, resizes and    *)
(* deletes indexes and the LRU cache evicts them.                          *)
(*                                                                         *)
(* An index is three pieces of data: its directory on disk (dir), its name *)
(* in the persistent table (mapping) and its state in the in-memory        *)
(* IndexMap (map).  The RwLock of the map makes each use of the map one    *)
(* step; mapping changes by transactions of the scheduler thread.  Between *)
(* two steps of index() or delete_index() any other thread may run.        *)
(*                                                                         *)
(* The registry of open environments (envs, holders) belongs to the LMDB   *)
(* binding: an environment that is prepared for closing is closed when the *)
(* last clone of it is dropped, and cannot be opened before that.          *)
(***************************************************************************)
EXTENDS Naturals, Sequences, FiniteSets

CONSTANTS
  Names,           \* the uids of the indexes, as users write them
  Readers,         \* threads that search, or read settings and statistics
  Scheduler,       \* the scheduler thread, the only one that changes indexes
  None,            \* no uuid
  MaxUuids,        \* bound on the number of indexes ever created
  MaxGenerations,  \* bound on the number of closings
  Cap,             \* capacity of the LRU cache of open indexes (index_count)
  MaxFaults,       \* bound on the number of I/O errors
  MaxTries         \* 100: the attempts of delete_index to close an index

Uuids   == 1 .. MaxUuids
Threads == Readers \cup {Scheduler}

ASSUME MapperAssumption ==
  /\ MaxUuids \in Nat /\ MaxGenerations \in Nat /\ MaxFaults \in Nat /\ MaxTries \in Nat
  /\ Cap \in Nat \ {0}
  /\ Scheduler \notin Readers /\ None \notin Uuids

VARIABLES
  mapping,   \* index_mapping: name -> uuid
  dir,       \* the directory of each index
  map,       \* the IndexMap
  envs,      \* the environment of each index, as the LMDB binding sees it
  holders,   \* the threads that have a clone of it
  thread,    \* where each thread is
  deleter,   \* where the thread that deletes an index is
  faults

vars == <<mapping, dir, map, envs, holders, thread, deleter, faults>>

-----------------------------------------------------------------------------
(* State.                                                                   *)

\* The status of an index that is not available, the generation of its closing
\* and the map size it will be reopened with, as a number of growths.
Entry(status, generation, size) == [status |-> status, generation |-> generation, size |-> size]
Missing      == Entry("Missing", 0, 0)
BeingDeleted == Entry("BeingDeleted", 0, 0)

\* The available indexes, least recently used first.
EmptyMap == [available |-> <<>>, unavailable |-> [u \in Uuids |-> Missing], generation |-> 0]

\* generation tells the closings of an environment apart: each has its event.
Environment(state, generation, size) ==
  [state |-> state, generation |-> generation, size |-> size]

\* tries counts the rounds of the loop of delete_index.
At(pc, uuid, generation, size) ==
  [pc |-> pc, uuid |-> uuid, generation |-> generation, size |-> size, tries |-> 0]
Idle == At("idle", None, 0, 0)

Init ==
  /\ mapping = [n \in Names |-> None]
  /\ dir = [u \in Uuids |-> "Missing"]
  /\ map = EmptyMap
  /\ envs = [u \in Uuids |-> Environment("closed", 0, 0)]
  /\ holders = [u \in Uuids |-> {}]
  /\ thread = [t \in Threads |-> Idle]
  /\ deleter = [u \in Uuids |-> "none"]
  /\ faults = 0

Available(u) == \E i \in 1 .. Len(map.available) : map.available[i] = u

\* IndexMap::get
Status(u) == IF Available(u) THEN "Available" ELSE map.unavailable[u].status

\* A deleter that panicked held the lock of the map: it is poisoned, and every
\* later use of it panics.
Poisoned == \E u \in Uuids : deleter[u] = "panicked"

\* The closing event of a generation is signaled once that closing is over.
Signaled(u, generation) ==
  ~(envs[u].state = "closing" /\ envs[u].generation = generation)

-----------------------------------------------------------------------------
(* The operations of IndexMap, on a state s of the map and the environments.*)

Here == [map |-> map, envs |-> envs]

\* What is left of the available indexes without one of them.
Without(available, u) ==
  LET place == CHOOSE i \in 1 .. Len(available) : available[i] = u
  IN [i \in 1 .. Len(available) - 1 |-> IF i < place THEN available[i] ELSE available[i + 1]]

\* LruMap::get refreshes what it finds.
Touch(m, u) == [m EXCEPT !.available = Append(Without(@, u), u)]

\* prepare_for_closing
Shut(e, u, generation) ==
  [e EXCEPT ![u] = Environment(IF holders[u] = {} THEN "closed" ELSE "closing",
                               generation, @.size)]

\* Mutant: a closing is given the generation after the one it takes.
CloseInNextGeneration(s, u, growth) ==
  LET generation == s.map.generation + 2 IN
  [map  |-> [available   |-> s.map.available,
             unavailable |-> [s.map.unavailable EXCEPT
                                ![u] = Entry("Closing", generation, s.envs[u].size + growth)],
             generation  |-> s.map.generation + 1],
   envs |-> Shut(s.envs, u, generation)]

\* IndexMap::close, of an index that was just taken out of the available ones.
Close(s, u, growth) ==
  LET generation == s.map.generation + 1 IN
  [map  |-> [available   |-> s.map.available,
             unavailable |-> [s.map.unavailable EXCEPT
                                ![u] = Entry("Closing", generation, s.envs[u].size + growth)],
             generation  |-> generation],
   envs |-> Shut(s.envs, u, generation)]

\* Mutant: what the cache evicts is forgotten without being closed.
InsertForgetsEvicted(s, u, size) ==
  LET old == s.map.available
  IN [map  |-> [s.map EXCEPT !.available = Append(IF Len(old) < Cap THEN old ELSE Tail(old), u)],
      envs |-> [s.envs EXCEPT ![u] = Environment("open", 0, size)]]

\* LruMap::insert, then the closing of what it evicts.
Insert(s, u, size) ==
  LET opened == [s.envs EXCEPT ![u] = Environment("open", 0, size)]
      old == s.map.available
  IN IF Len(old) < Cap
     THEN [map |-> [s.map EXCEPT !.available = Append(old, u)], envs |-> opened]
     ELSE Close([map |-> [s.map EXCEPT !.available = Append(Tail(old), u)], envs |-> opened],
                Head(old), 0)

\* The environment can be opened: the directory is there and no closing is
\* under way.
CanOpen(u) == dir[u] = "Present" /\ envs[u].state # "closing"

\* IndexMap::create for thread t, with the entry of u already removed: if the
\* environment does not open, the caller of index() gets the error.
Create(t, m, u, size, next) ==
  \/ /\ CanOpen(u)
     /\ LET s == Insert([map |-> m, envs |-> envs], u, size) IN
        /\ s.map.generation <= MaxGenerations
        /\ map' = s.map /\ envs' = s.envs
     /\ thread' = [thread EXCEPT ![t] = next]
     /\ holders' = IF next.pc = "using" THEN [holders EXCEPT ![u] = @ \cup {t}] ELSE holders
     /\ UNCHANGED faults
  \/ /\ \/ ~CanOpen(u) /\ UNCHANGED faults
        \/ faults < MaxFaults /\ faults' = faults + 1
     /\ map' = m
     /\ thread' = [thread EXCEPT ![t] = Idle]
     /\ UNCHANGED <<envs, holders>>

Goto(t, pc) == thread' = [thread EXCEPT ![t].pc = pc]

-----------------------------------------------------------------------------
(* IndexMapper::index, in any thread.                                       *)

\* The name is resolved in the transaction of the caller, once and for all.
Resolve(t, n) ==
  /\ thread[t].pc = "idle" /\ mapping[n] # None
  /\ thread' = [thread EXCEPT ![t] = At("get", mapping[n], 0, 0)]
  /\ UNCHANGED <<mapping, dir, map, envs, holders, deleter, faults>>

\* One round of the loop, under the read lock.
Get(t) ==
  LET u == thread[t].uuid IN
  /\ thread[t].pc = "get" /\ ~Poisoned
  /\ \/ /\ Status(u) = "Available"
        /\ map' = Touch(map, u)
        /\ holders' = [holders EXCEPT ![u] = @ \cup {t}]
        /\ Goto(t, "using")
     \/ /\ Status(u) = "Closing"
        /\ thread' = [thread EXCEPT ![t] = At("wait", u, map.unavailable[u].generation,
                                              map.unavailable[u].size)]
        /\ UNCHANGED <<map, holders>>
     \/ /\ Status(u) = "Missing"
        /\ Goto(t, "open")
        /\ UNCHANGED <<map, holders>>
     \/ /\ Status(u) = "BeingDeleted"
        /\ thread' = [thread EXCEPT ![t] = Idle]
        /\ UNCHANGED <<map, holders>>
  /\ UNCHANGED <<mapping, dir, envs, deleter, faults>>

\* The status is checked again under the write lock.
Open(t) ==
  LET u == thread[t].uuid IN
  /\ thread[t].pc = "open" /\ ~Poisoned
  /\ \/ /\ Status(u) = "Missing"
        /\ Create(t, map, u, 0, At("using", u, 0, 0))
     \/ /\ Status(u) = "Available"
        /\ map' = Touch(map, u)
        /\ holders' = [holders EXCEPT ![u] = @ \cup {t}]
        /\ Goto(t, "using")
        /\ UNCHANGED <<envs, faults>>
     \/ /\ Status(u) = "Closing"
        /\ Goto(t, "get")
        /\ UNCHANGED <<map, envs, holders, faults>>
     \/ /\ Status(u) = "BeingDeleted"
        /\ thread' = [thread EXCEPT ![t] = Idle]
        /\ UNCHANGED <<map, envs, holders, faults>>
  /\ UNCHANGED <<mapping, dir, deleter>>

\* ClosingIndex::wait_timeout, without any lock; delete_index waits as well.
WaitEnds(t) ==
  /\ thread[t].pc \in {"wait", "wait_deletion"}
  /\ Signaled(thread[t].uuid, thread[t].generation)
  /\ Goto(t, IF thread[t].pc = "wait" THEN "reopen" ELSE "close")
  /\ UNCHANGED <<mapping, dir, map, envs, holders, deleter, faults>>

\* A thread that takes a poisoned lock panics; its operation is given up.
PoisonedLock(t) ==
  /\ thread[t].pc \in {"get", "open", "reopen", "start_deletion", "close"} /\ Poisoned
  /\ thread' = [thread EXCEPT ![t] = Idle]
  /\ UNCHANGED <<mapping, dir, map, envs, holders, deleter, faults>>

\* Mutant: the end of the time is taken for the end of the closing.
WaitTimesOutAsEnded(t) ==
  /\ thread[t].pc \in {"wait", "wait_deletion"}
  /\ ~Signaled(thread[t].uuid, thread[t].generation)
  /\ Goto(t, IF thread[t].pc = "wait" THEN "reopen" ELSE "close")
  /\ UNCHANGED <<mapping, dir, map, envs, holders, deleter, faults>>

\* Mutant: a deletion that waited too long is given up.
WaitTimesOutForGood(t) ==
  /\ thread[t].pc \in {"wait", "wait_deletion"}
  /\ ~Signaled(thread[t].uuid, thread[t].generation)
  /\ IF thread[t].pc = "wait" THEN Goto(t, "get") ELSE thread' = [thread EXCEPT ![t] = Idle]
  /\ UNCHANGED <<mapping, dir, map, envs, holders, deleter, faults>>

\* The time is over: the loop is entered again.  That of index() panics instead if
\* it was its 100th round; that of delete_index counts its rounds in StartDeletion.
WaitTimesOut(t) ==
  /\ thread[t].pc \in {"wait", "wait_deletion"}
  /\ ~Signaled(thread[t].uuid, thread[t].generation)
  /\ \/ Goto(t, IF thread[t].pc = "wait" THEN "get" ELSE "start_deletion")
     \/ thread[t].pc = "wait" /\ thread' = [thread EXCEPT ![t] = Idle]
  /\ UNCHANGED <<mapping, dir, map, envs, holders, deleter, faults>>

\* Mutant: only a closing older than the one waited for will do.
OlderClosing(t) ==
  LET u == thread[t].uuid IN
  Status(u) = "Closing" /\ map.unavailable[u].generation < thread[t].generation

\* The entry in the map is the closing that this thread has waited for.
SameClosing(t) ==
  LET u == thread[t].uuid IN
  /\ Status(u) = "Closing"
  /\ map.unavailable[u].generation = thread[t].generation

Removed(u) == [map EXCEPT !.unavailable[u] = Missing]

\* Mutant: the index is reopened with the map size of a new one.
ReopenAtBaseSize(t) ==
  LET u == thread[t].uuid IN
  /\ thread[t].pc = "reopen" /\ ~Poisoned
  /\ IF SameClosing(t)
     THEN Create(t, Removed(u), u, 0, At("get", u, 0, 0))
     ELSE Goto(t, "get") /\ UNCHANGED <<map, envs, holders, faults>>
  /\ UNCHANGED <<mapping, dir, deleter>>

\* ReopenableIndex::reopen
Reopen(t) ==
  LET u == thread[t].uuid IN
  /\ thread[t].pc = "reopen" /\ ~Poisoned
  /\ IF SameClosing(t)
     THEN Create(t, Removed(u), u, thread[t].size, At("get", u, 0, 0))
     ELSE Goto(t, "get") /\ UNCHANGED <<map, envs, holders, faults>>
  /\ UNCHANGED <<mapping, dir, deleter>>

\* The caller drops its clone of the index.
Release(t) ==
  LET u == thread[t].uuid IN
  /\ thread[t].pc = "using"
  /\ holders' = [holders EXCEPT ![u] = @ \ {t}]
  /\ envs' = [envs EXCEPT ![u] =
       IF @.state = "closing" /\ holders[u] = {t}
       THEN Environment("closed", @.generation, @.size) ELSE @]
  /\ thread' = [thread EXCEPT ![t] = Idle]
  /\ UNCHANGED <<mapping, dir, map, deleter, faults>>

-----------------------------------------------------------------------------
(* The scheduler thread.                                                    *)

SchedulerIdle == thread[Scheduler].pc = "idle"

\* Uuid::new_v4: one that was never used.
NewUuid(u) == dir[u] = "Missing" /\ \A v \in Uuids : v < u => dir[v] # "Missing"

\* create_index for a name without index (with one it is index()): nobody else
\* knows the uuid before the commit.
CreateIndex(n) ==
  /\ SchedulerIdle /\ mapping[n] = None /\ ~Poisoned
  /\ \E u \in Uuids :
       /\ NewUuid(u)
       /\ dir' = [dir EXCEPT ![u] = "Present"]
       /\ mapping' = [mapping EXCEPT ![n] = u]
       /\ LET s == Insert(Here, u, 0) IN
          /\ s.map.generation <= MaxGenerations
          /\ map' = s.map /\ envs' = s.envs
       /\ holders' = [holders EXCEPT ![u] = {Scheduler}]
       /\ thread' = [thread EXCEPT ![Scheduler] = At("using", u, 0, 0)]
  /\ UNCHANGED <<deleter, faults>>

\* create_index fails after it made the directory: the environment does not open, or
\* it is in the map already when the transaction is not committed.  No name leads to
\* the index, and its directory stays.  (When the directory cannot be made nothing
\* changes.)
CreateIndexFails(n) ==
  /\ SchedulerIdle /\ mapping[n] = None /\ ~Poisoned
  /\ faults < MaxFaults /\ faults' = faults + 1
  /\ \E u \in Uuids :
       /\ NewUuid(u)
       /\ dir' = [dir EXCEPT ![u] = "Present"]
       /\ \/ UNCHANGED <<map, envs>>
          \/ LET s == Insert(Here, u, 0) IN
             /\ s.map.generation <= MaxGenerations
             /\ map' = s.map /\ envs' = s.envs
  /\ UNCHANGED <<mapping, holders, thread, deleter>>

\* resize_index, after a batch that found the index full: close_for_resize does
\* nothing to an index that is no longer available.
ResizeIndex(n) ==
  /\ SchedulerIdle /\ mapping[n] # None /\ ~Poisoned
  /\ Available(mapping[n]) /\ map.generation < MaxGenerations
  /\ LET u == mapping[n]
         s == Close([map |-> [map EXCEPT !.available = Without(@, u)], envs |-> envs], u, 1)
     IN map' = s.map /\ envs' = s.envs
  /\ UNCHANGED <<mapping, dir, holders, thread, deleter, faults>>

SwapIndexes(m, n) ==
  /\ SchedulerIdle /\ m # n /\ mapping[m] # None /\ mapping[n] # None
  /\ mapping' = [mapping EXCEPT ![m] = mapping[n], ![n] = mapping[m]]
  /\ UNCHANGED <<dir, map, envs, holders, thread, deleter, faults>>

\* Mutant: the name of an index that is in use is left in the table.
DeleteIndexKeepsName(n) ==
  /\ SchedulerIdle /\ mapping[n] # None
  /\ mapping' = IF Available(mapping[n]) THEN mapping ELSE [mapping EXCEPT ![n] = None]
  /\ thread' = [thread EXCEPT ![Scheduler] = At("start_deletion", mapping[n], 0, 0)]
  /\ UNCHANGED <<dir, map, envs, holders, deleter, faults>>

\* The transaction of delete_index.
DeleteIndex(n) ==
  /\ SchedulerIdle /\ mapping[n] # None
  /\ mapping' = [mapping EXCEPT ![n] = None]
  /\ thread' = [thread EXCEPT ![Scheduler] = At("start_deletion", mapping[n], 0, 0)]
  /\ UNCHANGED <<dir, map, envs, holders, deleter, faults>>

\* One round of the loop of delete_index: IndexMap::start_deletion, and the thread
\* "index_deleter" when it succeeds.  A closing index is taken out of the map, and the
\* round that is one too many panics.  The uuid lost its name only once, so that it is
\* not BeingDeleted already.
StartDeletion ==
  LET u == thread[Scheduler].uuid IN
  /\ thread[Scheduler].pc = "start_deletion" /\ ~Poisoned
  /\ \/ /\ Status(u) = "Available"
        /\ map' = [map EXCEPT !.available = Without(@, u), !.unavailable[u] = BeingDeleted]
        /\ envs' = Shut(envs, u, 0)
        /\ deleter' = [deleter EXCEPT ![u] = "wait"]
        /\ thread' = [thread EXCEPT ![Scheduler] = Idle]
     \/ /\ Status(u) = "Closing"
        /\ thread' = [thread EXCEPT ![Scheduler] =
             IF @.tries + 1 >= MaxTries THEN Idle
             ELSE [At("wait_deletion", u, map.unavailable[u].generation, 0)
                     EXCEPT !.tries = thread[Scheduler].tries + 1]]
        /\ map' = Removed(u)
        /\ UNCHANGED <<envs, deleter>>
     \/ /\ Status(u) = "Missing"
        /\ deleter' = [deleter EXCEPT ![u] = "remove"]
        /\ thread' = [thread EXCEPT ![Scheduler] = Idle]
        /\ UNCHANGED <<map, envs>>
  /\ UNCHANGED <<mapping, dir, holders, faults>>

\* ReopenableIndex::close
CloseForDeletion ==
  /\ thread[Scheduler].pc = "close" /\ ~Poisoned
  /\ map' = IF SameClosing(Scheduler) THEN Removed(thread[Scheduler].uuid) ELSE map
  /\ Goto(Scheduler, "start_deletion")
  /\ UNCHANGED <<mapping, dir, envs, holders, deleter, faults>>

-----------------------------------------------------------------------------
(* The thread "index_deleter".                                              *)

\* The event it waits for, if it has one: the index is BeingDeleted, so that
\* nobody opens it again.
DeleterWaits(u) ==
  /\ deleter[u] = "wait" /\ Signaled(u, 0)
  /\ deleter' = [deleter EXCEPT ![u] = "remove"]
  /\ UNCHANGED <<mapping, dir, map, envs, holders, thread, faults>>

\* remove_dir_all; an error is only logged.
RemoveDir(u) ==
  /\ deleter[u] = "remove"
  /\ deleter' = [deleter EXCEPT ![u] = "end"]
  /\ \/ dir' = [dir EXCEPT ![u] = "Removed"] /\ UNCHANGED faults
     \/ faults < MaxFaults /\ faults' = faults + 1 /\ UNCHANGED dir
  /\ UNCHANGED <<mapping, map, envs, holders, thread>>

\* IndexMap::end_deletion, with its two assertions.
EndDeletion(u) ==
  /\ deleter[u] = "end"
  /\ deleter' = [deleter EXCEPT ![u] =
       IF Poisoned \/ Status(u) \in {"Available", "Closing"} THEN "panicked" ELSE "done"]
  /\ map' = IF Poisoned \/ Available(u) THEN map ELSE Removed(u)
  /\ UNCHANGED <<mapping, dir, envs, holders, thread, faults>>

-----------------------------------------------------------------------------
Lookup(t) ==
  \/ Get(t) \/ Open(t) \/ WaitEnds(t) \/ WaitTimesOut(t) \/ Reopen(t) \/ PoisonedLock(t)
  \/ Release(t)

Deletion(u) == DeleterWaits(u) \/ RemoveDir(u) \/ EndDeletion(u)

Next ==
  \/ \E t \in Threads : (\E n \in Names : Resolve(t, n)) \/ Lookup(t)
  \/ \E n \in Names : CreateIndex(n) \/ CreateIndexFails(n) \/ ResizeIndex(n) \/ DeleteIndex(n)
  \/ \E m, n \in Names : SwapIndexes(m, n)
  \/ StartDeletion \/ CloseForDeletion
  \/ \E u \in Uuids : Deletion(u)

Spec == Init /\ [][Next]_vars

\* A thread that runs goes on, and whoever has an index drops it in the end.
\* Nobody has to look an index up, nor to create, resize or delete one.
Fairness ==
  /\ \A t \in Threads : WF_vars(Lookup(t))
  /\ WF_vars(StartDeletion \/ CloseForDeletion)
  /\ \A u \in Uuids : WF_vars(Deletion(u))

FairSpec == Spec /\ Fairness
-----------------------------------------------------------------------------
(* Correctness.                                                             *)

\* The type of every variable.
TypeOK ==
  /\ mapping \in [Names -> Uuids \cup {None}]
  /\ dir \in [Uuids -> {"Missing", "Present", "Removed"}]
  /\ map.available \in Seq(Uuids) /\ map.generation \in 0 .. MaxGenerations
  /\ \A u \in Uuids :
       /\ map.unavailable[u].status \in {"Missing", "BeingDeleted", "Closing"}
       /\ map.unavailable[u].generation \in 0 .. MaxGenerations
       /\ envs[u].state \in {"closed", "open", "closing"}
  /\ holders \in [Uuids -> SUBSET Threads]
  /\ \A t \in Threads : thread[t].pc \in
       {"idle", "get", "wait", "open", "reopen", "using", "start_deletion",
        "wait_deletion", "close"}
  /\ deleter \in [Uuids -> {"none", "wait", "remove", "end", "done", "panicked"}]

\* The map is a consistent view of the environments that are open: an index is
\* available exactly when its environment is open, is then in no other state, is
\* there once, and there are no more of them than the cache may hold.
MapConsistent ==
  /\ Len(map.available) <= Cap
  /\ \A i, j \in 1 .. Len(map.available) : map.available[i] = map.available[j] => i = j
  /\ \A u \in Uuids : Available(u) <=> envs[u].state = "open"
  /\ \A u \in Uuids : Available(u) => map.unavailable[u] = Missing

\* Whoever finds an index missing from the map can open it: an existing index
\* whose environment is still being closed is never reported as missing, even if
\* several threads wait for several successive closings of it.
MissingMeansClosed ==
  \A n \in Names :
    mapping[n] # None /\ Status(mapping[n]) = "Missing" => envs[mapping[n]].state = "closed"

\* The directory of an index that has a name is never removed.
NamedIndexKept == \A n \in Names : mapping[n] # None => dir[mapping[n]] = "Present"

\* An index is reopened at least as large as it was, and larger if it was closed to
\* be resized, as long as it has a name (reopen() forgets the size when opening fails,
\* so that this is said of behaviours without I/O errors).
SizeKept ==
  [][faults' = 0 => \A u \in {mapping[n] : n \in Names} \ {None} :
       (envs[u].state # "open" /\ envs'[u].state = "open") =>
         /\ envs'[u].size >= envs[u].size
         /\ map.unavailable[u].status = "Closing" => envs'[u].size = map.unavailable[u].size]_vars

\* index() returns, with the index or with an error.
EveryLookupEnds ==
  \A t \in Threads : thread[t].pc \in {"get", "open", "wait", "reopen"} ~>
                     thread[t].pc \in {"idle", "using"}

\* An index whose name delete_index has removed loses its directory in the end, however
\* often it is found closing, and whoever opens it again meanwhile; unless an assertion of
\* end_deletion has poisoned the lock of the map.  (The panic after the hundredth attempt to
\* close the index gives the deletion up as well: the run has fewer closings than that.)
DeletionEnds ==
  \A u \in Uuids :
    (thread[Scheduler].pc \in {"start_deletion", "wait_deletion", "close"}
       /\ thread[Scheduler].uuid = u)
      ~> (dir[u] = "Removed" \/ Poisoned)

\* The assertions of end_deletion ("Attempt to finish deletion of an index that was
\* not being deleted", "... that was being closed").
EndDeletionNeverPanics == ~Poisoned

\* The map tells the truth about the environments and the directories: what is available is
\* open, what is missing can be opened, what has a name is on disk (IndexMap).
MapSound == MapConsistent /\ MissingMeansClosed /\ NamedIndexKept
=============================================================================
