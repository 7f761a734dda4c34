------------------------- MODULE IndexMapperProofs --------------------------
(***************************************************************************)
(* Proofs about the index mapper, for any number of names, readers, uuids  *)
(* and closings and any capacity of the cache.                             *)
(***************************************************************************)
EXTENDS IndexMapper, TLAPS

Statuses == {"Missing", "BeingDeleted", "Closing"}
States   == {"closed", "open", "closing"}
Places   == {"idle", "get", "wait", "open", "reopen", "using", "start_deletion",
             "wait_deletion", "close"}

Generations == 0 .. MaxGenerations

Entries == [status : Statuses, generation : Generations, size : Nat]
MapType == [available : Seq(Uuids), unavailable : [Uuids -> Entries], generation : Generations]
EnvType == [Uuids -> [state : States, generation : Generations, size : Nat]]

Positions ==
  [pc : Places, uuid : Uuids \cup {None}, generation : Generations, size : Nat, tries : Nat]

\* The type of every variable, down to the fields of the records.
Types ==
  /\ mapping \in [Names -> Uuids \cup {None}]
  /\ dir \in [Uuids -> {"Missing", "Present", "Removed"}]
  /\ map \in MapType /\ envs \in EnvType
  /\ holders \in [Uuids -> SUBSET Threads]
  /\ thread \in [Threads -> Positions]
  /\ deleter \in [Uuids -> {"none", "wait", "remove", "end", "done", "panicked"}]
  /\ faults \in Nat

\* A sequence without repetition, and its elements.
Distinct(s) == \A i, j \in 1 .. Len(s) : s[i] = s[j] => i = j
Members(s) == {s[i] : i \in 1 .. Len(s)}

\* What the map says of an index agrees with its environment.
Agrees(m, e, u) ==
  /\ u \in Members(m.available) <=> e[u].state = "open"
  /\ u \in Members(m.available) => m.unavailable[u] = Missing
  /\ m.unavailable[u].status = "Missing" => m.unavailable[u] = Missing
  /\ m.unavailable[u].status = "Closing" =>
       /\ m.unavailable[u].generation \in 1 .. m.generation
       /\ m.unavailable[u].generation = e[u].generation
       /\ m.unavailable[u].size >= e[u].size

Lru(s) == Len(s) <= Cap /\ Distinct(s)

Cache == Lru(map.available) /\ \A u \in Uuids : Agrees(map, envs, u)

\* A uuid that was not given yet is nowhere.
Unused(m, e, u) ==
  u \notin Members(m.available) /\ m.unavailable[u] = Missing /\ e[u].state = "closed"

Fresh == \A u \in Uuids : dir[u] = "Missing" => Unused(map, envs, u) /\ deleter[u] = "none"

\* The thread that deletes an index once its name is gone.
Deleting == {"start_deletion", "wait_deletion", "close"}

\* Names are of existing indexes, one each, that nobody is deleting.
Named ==
  /\ \A n \in Names : mapping[n] # None =>
       dir[mapping[n]] = "Present" /\ deleter[mapping[n]] = "none"
  /\ \A m, n \in Names : mapping[m] # None /\ mapping[m] = mapping[n] => m = n
  /\ thread[Scheduler].pc \in Deleting => \A n \in Names : mapping[n] # thread[Scheduler].uuid

\* A thread works on an index that was created.
Working ==
  \A t \in Threads : thread[t].pc # "idle" =>
    thread[t].uuid \in Uuids /\ dir[thread[t].uuid] # "Missing"

\* The closing that a thread waits for is one of the past, and is over once the thread
\* has waited for it; what the thread will reopen is as large as the map says.
Waited(th, m, e) ==
  /\ th.pc \in {"wait", "wait_deletion", "reopen", "close"} => th.generation \in 1 .. m.generation
  /\ th.pc \in {"reopen", "close"} =>
       ~(e[th.uuid].state = "closing" /\ e[th.uuid].generation = th.generation)
  /\ th.pc \in {"wait", "reopen"} /\ m.unavailable[th.uuid].status = "Closing"
       /\ m.unavailable[th.uuid].generation = th.generation
       => m.unavailable[th.uuid].size = th.size

Waiting == \A t \in Threads : Waited(thread[t], map, envs)

\* An index with a name can be opened when it is missing, and is not missing as long
\* as no opening failed.
Reachable(m, e, u) ==
  u \notin Members(m.available) =>
    /\ m.unavailable[u].status = "Missing" => e[u].state = "closed"
    /\ faults = 0 => m.unavailable[u].status = "Closing"

Reached == \A n \in Names : mapping[n] # None => Reachable(map, envs, mapping[n])

\* The inductive invariant.
MapperInv == Types /\ Cache /\ Fresh /\ Named /\ Working /\ Waiting /\ Reached

-----------------------------------------------------------------------------
(* The sequence of the available indexes.                                   *)

\* An index is available when it is a member of the sequence.
LEMMA AvailableMember == \A u \in Uuids : Available(u) <=> u \in Members(map.available)
  BY DEF Available, Members

\* Taking out of the cache an index that it has (LruMap::remove).
LEMMA WithoutMember ==
  ASSUME NEW s \in Seq(Uuids), Distinct(s), NEW u \in Members(s)
  PROVE  /\ Without(s, u) \in Seq(Uuids) /\ Distinct(Without(s, u))
         /\ Len(Without(s, u)) = Len(s) - 1
         /\ Members(Without(s, u)) = Members(s) \ {u}
<1> DEFINE place == CHOOSE i \in 1 .. Len(s) : s[i] = u
           rest == [i \in 1 .. Len(s) - 1 |-> IF i < place THEN s[i] ELSE s[i + 1]]
<1>1. place \in 1 .. Len(s) /\ s[place] = u
  BY DEF Members
<1>2. Without(s, u) = rest
  BY DEF Without
<1> HIDE DEF place
<1>3. rest \in Seq(Uuids) /\ Len(rest) = Len(s) - 1
  <2>1. Len(s) \in Nat /\ Len(s) - 1 \in Nat
    BY <1>1
  <2>2. rest \in [1 .. Len(s) - 1 -> Uuids]
    BY <1>1
  <2> QED
    BY <2>1, <2>2
<1>4. \A i \in 1 .. Len(rest) : rest[i] = IF i < place THEN s[i] ELSE s[i + 1]
  BY <1>3
<1> HIDE DEF rest
<1>5. Distinct(rest)
  <2> SUFFICES ASSUME NEW i \in 1 .. Len(rest), NEW j \in 1 .. Len(rest), rest[i] = rest[j]
               PROVE  i = j
    BY DEF Distinct
  <2> QED
    BY <1>1, <1>3, <1>4 DEF Distinct
<1>6. Members(rest) \subseteq Members(s) \ {u}
  <2> SUFFICES ASSUME NEW i \in 1 .. Len(rest)
               PROVE  rest[i] \in Members(s) \ {u}
    BY DEF Members
  <2>1. PICK j \in 1 .. Len(s) : rest[i] = s[j] /\ j # place
    BY <1>1, <1>3, <1>4
  <2> QED
    BY <1>1, <2>1 DEF Members, Distinct
<1>7. Members(s) \ {u} \subseteq Members(rest)
  <2> SUFFICES ASSUME NEW j \in 1 .. Len(s), s[j] # u
               PROVE  s[j] \in Members(rest)
    BY DEF Members
  <2>1. PICK i \in 1 .. Len(rest) : rest[i] = s[j]
    <3>1. CASE j < place
      BY <1>1, <1>3, <1>4, <3>1
    <3>2. CASE j > place
      <4>1. j - 1 \in 1 .. Len(rest) /\ rest[j - 1] = s[j]
        BY <1>1, <1>3, <1>4, <3>2
      <4> QED
        BY <4>1
    <3> QED
      BY <1>1, <3>1, <3>2
  <2> QED
    BY <2>1 DEF Members
<1> QED
  BY <1>2, <1>3, <1>5, <1>6, <1>7

\* Adding one that it does not have.
LEMMA AppendMember ==
  ASSUME NEW s \in Seq(Uuids), Distinct(s), NEW u \in Uuids \ Members(s)
  PROVE  /\ Append(s, u) \in Seq(Uuids) /\ Distinct(Append(s, u))
         /\ Len(Append(s, u)) = Len(s) + 1
         /\ Members(Append(s, u)) = Members(s) \cup {u}
<1>1. /\ Append(s, u) \in Seq(Uuids) /\ Len(Append(s, u)) = Len(s) + 1
      /\ Append(s, u)[Len(s) + 1] = u
      /\ \A i \in 1 .. Len(s) : Append(s, u)[i] = s[i]
  OBVIOUS
<1>2. \A i \in 1 .. Len(s) + 1 : i \in 1 .. Len(s) \/ i = Len(s) + 1
  OBVIOUS
<1>3. Distinct(Append(s, u))
  BY <1>1, <1>2 DEF Distinct, Members
<1>4. Members(Append(s, u)) = Members(s) \cup {u}
  <2>1. ASSUME NEW v \in Members(Append(s, u)) PROVE v \in Members(s) \cup {u}
    BY <1>1, <1>2, <2>1 DEF Members
  <2>2. ASSUME NEW v \in Members(s) \cup {u} PROVE v \in Members(Append(s, u))
    <3>1. Len(s) + 1 \in 1 .. Len(Append(s, u)) /\ 1 .. Len(s) \subseteq 1 .. Len(Append(s, u))
      BY <1>1
    <3> QED
      BY <1>1, <2>2, <3>1 DEF Members
  <2> QED
    BY <2>1, <2>2
<1> QED
  BY <1>1, <1>3, <1>4

\* Evicting the least recently used one.
LEMMA TailMember ==
  ASSUME NEW s \in Seq(Uuids), Distinct(s), s # <<>>
  PROVE  /\ Tail(s) \in Seq(Uuids) /\ Distinct(Tail(s)) /\ Len(Tail(s)) = Len(s) - 1
         /\ Head(s) \in Members(s) /\ Members(Tail(s)) = Members(s) \ {Head(s)}
<1>1. /\ Tail(s) \in Seq(Uuids) /\ Len(Tail(s)) = Len(s) - 1 /\ Head(s) = s[1] /\ Len(s) \in Nat \ {0}
      /\ \A i \in 1 .. Len(s) - 1 : Tail(s)[i] = s[i + 1]
  OBVIOUS
<1>2. Distinct(Tail(s))
  BY <1>1 DEF Distinct
<1>3. Head(s) \in Members(s)
  BY <1>1 DEF Members
<1>4. Members(Tail(s)) = Members(s) \ {Head(s)}
  <2>1. ASSUME NEW i \in 1 .. Len(s) - 1 PROVE s[i + 1] \in Members(s) \ {Head(s)}
    BY <1>1 DEF Members, Distinct
  <2>2. ASSUME NEW j \in 1 .. Len(s), s[j] # Head(s) PROVE s[j] \in Members(Tail(s))
    <3>1. j - 1 \in 1 .. Len(Tail(s)) /\ Tail(s)[j - 1] = s[j]
      BY <1>1, <2>2
    <3> QED
      BY <3>1 DEF Members
  <2>3. Members(Tail(s)) \subseteq Members(s) \ {Head(s)}
    BY <1>1, <2>1 DEF Members
  <2>4. Members(s) \ {Head(s)} \subseteq Members(Tail(s))
    BY <2>2 DEF Members
  <2> QED
    BY <2>3, <2>4
<1> QED
  BY <1>1, <1>2, <1>3, <1>4

-----------------------------------------------------------------------------
(* The operations of IndexMap.                                              *)

\* What closing an index does to it, and what it does to the others.
Closed(m, e, m2, e2, u) ==
  /\ u \notin Members(m2.available)
  /\ m2.generation = m.generation + 1
  /\ m2.unavailable[u].status = "Closing" /\ m2.unavailable[u].generation = m2.generation
  /\ e2[u].state # "open" /\ e2[u].generation = m2.generation /\ e2[u].size = e[u].size

Untouched(m, e, m2, e2, u) ==
  /\ u \in Members(m2.available) <=> u \in Members(m.available)
  /\ m2.unavailable[u] = m.unavailable[u] /\ e2[u] = e[u]

\* Closing an index leaves every other one alone, and the index itself waiting for its closing event.
LEMMA CloseAgrees ==
  ASSUME NEW m \in MapType, NEW e \in EnvType, NEW u \in Uuids, NEW growth \in Nat,
         u \notin Members(m.available), m.generation < MaxGenerations,
         \A v \in Uuids \ {u} : Agrees(m, e, v),
         NEW s, NEW from, from = [map |-> m, envs |-> e], s = Close(from, u, growth)
  PROVE  /\ s.map \in MapType /\ s.envs \in EnvType
         /\ s.map.available = m.available
         /\ \A v \in Uuids : Agrees(s.map, s.envs, v)
         /\ Closed(m, e, s.map, s.envs, u)
         /\ \A v \in Uuids \ {u} : Untouched(m, e, s.map, s.envs, v)
<1> DEFINE g == m.generation + 1
           table == [m.unavailable EXCEPT ![u] = Entry("Closing", g, e[u].size + growth)]
           entry == Entry("Closing", g, e[u].size + growth)
           env == Environment(IF holders[u] = {} THEN "closed" ELSE "closing", g, e[u].size)
<1>1. g \in Generations \ {0} /\ m.generation \in Nat
  BY MapperAssumption DEF MapType, Generations
<1>2. entry \in Entries /\ env \in [state : States, generation : Generations, size : Nat]
  BY <1>1 DEF Entry, Environment, Entries, EnvType, Statuses, States
<1>3. /\ s.map = [available |-> m.available, unavailable |-> table, generation |-> g]
      /\ s.envs = [e EXCEPT ![u] = env]
  BY DEF Close, Shut
<1>4. /\ entry.status = "Closing" /\ entry.generation = g /\ entry.size = e[u].size + growth
      /\ env.state # "open" /\ env.generation = g /\ env.size = e[u].size /\ e[u].size \in Nat
  BY DEF Entry, Environment, EnvType
<1> HIDE DEF entry, env, g
<1>5. /\ table \in [Uuids -> Entries] /\ table[u] = entry
      /\ \A v \in Uuids \ {u} : table[v] = m.unavailable[v]
      /\ m.available \in Seq(Uuids)
  BY <1>2 DEF MapType, table, entry
<1> HIDE DEF table
<1>6. /\ s.map \in MapType
      /\ s.map.available = m.available /\ s.map.generation = g /\ s.map.unavailable[u] = entry
      /\ \A v \in Uuids \ {u} : s.map.unavailable[v] = m.unavailable[v]
  BY <1>1, <1>3, <1>5 DEF MapType
<1>10. s.envs \in EnvType /\ s.envs[u] = env /\ \A v \in Uuids \ {u} : s.envs[v] = e[v]
  BY <1>2, <1>3 DEF EnvType
<1>7. Agrees(s.map, s.envs, u)
  BY <1>1, <1>4, <1>6, <1>10 DEF Agrees, Generations
<1>8. ASSUME NEW v \in Uuids \ {u} PROVE Agrees(s.map, s.envs, v)
  <2>1. Agrees(m, e, v)
    OBVIOUS
  <2> QED
    BY <1>1, <1>6, <1>10, <2>1 DEF Agrees, g
<1>9. Closed(m, e, s.map, s.envs, u)
  BY <1>4, <1>6, <1>10 DEF Closed, g
<1> QED
  BY <1>6, <1>7, <1>8, <1>9, <1>10 DEF Untouched

\* LruMap::insert opens the index it is given, and closes at most one other.
LEMMA InsertAgrees ==
  ASSUME NEW m \in MapType, NEW e \in EnvType, NEW u \in Uuids, NEW size \in Nat,
         Lru(m.available), \A v \in Uuids : Agrees(m, e, v),
         u \notin Members(m.available), m.unavailable[u] = Missing,
         NEW s, s = Insert([map |-> m, envs |-> e], u, size), s.map.generation <= MaxGenerations
  PROVE  /\ s.map \in MapType /\ s.envs \in EnvType
         /\ Lru(s.map.available) /\ \A v \in Uuids : Agrees(s.map, s.envs, v)
         /\ u \in Members(s.map.available) /\ s.map.unavailable[u] = Missing
         /\ s.envs[u].state = "open" /\ s.envs[u].size = size
         /\ s.map.generation \in {m.generation, m.generation + 1}
         /\ \A v \in Uuids \ {u} : \/ Untouched(m, e, s.map, s.envs, v)
                                   \/ v \in Members(m.available) /\ Closed(m, e, s.map, s.envs, v)
<1> DEFINE env == Environment("open", 0, size)
           opened == [e EXCEPT ![u] = env]
           old == m.available
<1>1. /\ env \in [state : States, generation : Generations, size : Nat]
      /\ env.state = "open" /\ env.size = size
  BY MapperAssumption DEF Environment, States, Generations
<1>2. opened \in EnvType /\ opened[u] = env /\ \A v \in Uuids \ {u} : opened[v] = e[v]
  BY <1>1 DEF EnvType
<1>3. old \in Seq(Uuids) /\ Len(old) \in Nat /\ Len(old) <= Cap /\ Distinct(old) /\ Cap \in Nat \ {0}
      /\ m.generation \in Generations /\ m.generation \in Nat
  BY MapperAssumption DEF MapType, Lru, Generations
<1> HIDE DEF env, opened
<1>4. CASE Len(old) < Cap
  <2> DEFINE m2 == [m EXCEPT !.available = Append(old, u)]
  <2>1. s.map = m2 /\ s.envs = opened
    BY <1>4 DEF Insert, opened, env
  <2>2. /\ Append(old, u) \in Seq(Uuids) /\ Distinct(Append(old, u))
        /\ Len(Append(old, u)) = Len(old) + 1 /\ Members(Append(old, u)) = Members(old) \cup {u}
    BY <1>3, AppendMember
  <2>3. /\ m2 \in MapType /\ m2.available = Append(old, u)
        /\ m2.unavailable = m.unavailable /\ m2.generation = m.generation
    BY <2>2 DEF MapType
  <2> HIDE DEF m2
  <2>4. Lru(m2.available)
    BY <1>3, <1>4, <2>2, <2>3 DEF Lru
  <2>5. ASSUME NEW v \in Uuids \ {u} PROVE Untouched(m, e, m2, opened, v)
    BY <1>2, <2>2, <2>3 DEF Untouched
  <2>6. ASSUME NEW v \in Uuids PROVE Agrees(m2, opened, v)
    <3>1. Agrees(m, e, v)
      OBVIOUS
    <3>2. CASE v = u
      BY <1>1, <1>2, <2>2, <2>3, <3>2 DEF Agrees, Missing, Entry
    <3>3. CASE v # u
      BY <2>3, <2>5, <3>1, <3>3 DEF Agrees, Untouched
    <3> QED
      BY <3>2, <3>3
  <2> QED
    BY <1>1, <1>2, <2>1, <2>2, <2>3, <2>4, <2>5, <2>6
<1>5. CASE Len(old) >= Cap
  <2> DEFINE m1 == [m EXCEPT !.available = Append(Tail(old), u)]
             h == Head(old)
  <2>1. old # <<>> /\ Len(old) = Cap
    BY <1>3, <1>5
  <2>2. s = Close([map |-> m1, envs |-> opened], h, 0)
    BY <1>3, <1>5 DEF Insert, opened, env
  <2>3. /\ Tail(old) \in Seq(Uuids) /\ Distinct(Tail(old)) /\ Len(Tail(old)) = Len(old) - 1
        /\ h \in Members(old) /\ Members(Tail(old)) = Members(old) \ {h}
    BY <1>3, <2>1, TailMember
  <2>4. h \in Uuids /\ h # u
    BY <1>3, <2>3 DEF Members
  <2>5. /\ Append(Tail(old), u) \in Seq(Uuids) /\ Distinct(Append(Tail(old), u))
        /\ Len(Append(Tail(old), u)) = Len(old)
        /\ Members(Append(Tail(old), u)) = (Members(old) \ {h}) \cup {u}
    <3> DEFINE rest == Tail(old)
    <3>1. rest \in Seq(Uuids) /\ Distinct(rest) /\ u \in Uuids \ Members(rest)
      BY <2>3
    <3>2. Len(rest) + 1 = Len(old) /\ Members(rest) = Members(old) \ {h}
      BY <1>3, <2>3
    <3> HIDE DEF h, rest
    <3>3. /\ Append(rest, u) \in Seq(Uuids) /\ Distinct(Append(rest, u))
          /\ Len(Append(rest, u)) = Len(rest) + 1
          /\ Members(Append(rest, u)) = Members(rest) \cup {u}
      BY <3>1, AppendMember
    <3> QED
      BY <3>2, <3>3 DEF rest
  <2>6. /\ m1 \in MapType /\ m1.available = Append(Tail(old), u)
        /\ m1.unavailable = m.unavailable /\ m1.generation = m.generation
    BY <2>5 DEF MapType
  <2> HIDE DEF m1, h
  <2>7. ASSUME NEW v \in Uuids \ {h} PROVE Agrees(m1, opened, v)
    <3>1. Agrees(m, e, v)
      OBVIOUS
    <3>2. CASE v = u
      BY <1>1, <1>2, <2>5, <2>6, <3>2 DEF Agrees, Missing, Entry
    <3>3. CASE v # u
      BY <1>2, <2>5, <2>6, <3>1, <3>3 DEF Agrees
    <3> QED
      BY <3>2, <3>3
  <2>8. s.map.generation = m.generation + 1
    BY <2>2, <2>6 DEF Close
  <2>9. m1.generation < MaxGenerations
    BY <1>3, <2>6, <2>8, MapperAssumption DEF Generations
  <2>10. h \notin Members(m1.available)
    BY <2>4, <2>5, <2>6
  <2>11. /\ s.map \in MapType /\ s.envs \in EnvType /\ s.map.available = m1.available
         /\ \A v \in Uuids : Agrees(s.map, s.envs, v)
         /\ Closed(m1, opened, s.map, s.envs, h)
         /\ \A v \in Uuids \ {h} : Untouched(m1, opened, s.map, s.envs, v)
    <3>1. opened \in EnvType /\ m1 \in MapType /\ h \in Uuids /\ 0 \in Nat
      BY <1>2, <2>4, <2>6
    <3>2. \A v \in Uuids \ {h} : Agrees(m1, opened, v)
      BY <2>7
    <3> QED
      <4> DEFINE from == [map |-> m1, envs |-> opened]
      <4>1. s = Close(from, h, 0) /\ from = [map |-> m1, envs |-> opened]
        BY <2>2
      <4> HIDE DEF from
      <4>2. s.map \in MapType /\ s.envs \in EnvType /\ s.map.available = m1.available
        BY <2>9, <2>10, <3>1, <3>2, <4>1, CloseAgrees
      <4>3. \A v \in Uuids : Agrees(s.map, s.envs, v)
        BY <2>9, <2>10, <3>1, <3>2, <4>1, CloseAgrees
      <4>4. Closed(m1, opened, s.map, s.envs, h)
        BY <2>9, <2>10, <3>1, <3>2, <4>1, CloseAgrees
      <4>5. \A v \in Uuids \ {h} : Untouched(m1, opened, s.map, s.envs, v)
        BY <2>9, <2>10, <3>1, <3>2, <4>1, CloseAgrees
      <4> QED
        BY <4>2, <4>3, <4>4, <4>5
  <2>12. Lru(s.map.available)
    BY <1>3, <2>5, <2>6, <2>11, <2>1 DEF Lru
  <2>13. Closed(m, e, s.map, s.envs, h)
    BY <1>2, <2>4, <2>6, <2>11 DEF Closed
  <2>14. ASSUME NEW v \in Uuids \ {u, h} PROVE Untouched(m, e, s.map, s.envs, v)
    BY <1>2, <2>5, <2>6, <2>11 DEF Untouched
  <2>15. /\ u \in Members(s.map.available) /\ s.map.unavailable[u] = Missing
         /\ s.envs[u].state = "open" /\ s.envs[u].size = size
    BY <1>1, <1>2, <2>4, <2>5, <2>6, <2>11 DEF Untouched
  <2> QED
    BY <2>3, <2>8, <2>11, <2>12, <2>13, <2>14, <2>15
<1> QED
  BY <1>3, <1>4, <1>5

-----------------------------------------------------------------------------
(* Steps.                                                                   *)

\* What a step may do to an index without disturbing a thread that waits for it: a
\* closing is new, and so is the entry of one.
Evolves(m, e, m2, e2, u) ==
  /\ \/ m2.unavailable[u] = m.unavailable[u]
     \/ m2.unavailable[u].status # "Closing"
     \/ m2.unavailable[u].generation = m.generation + 1
  /\ \/ e2[u] = e[u]
     \/ e2[u].state # "closing"
     \/ e2[u].generation \in {0, m.generation + 1}

\* A thread that waits for a closing still waits for it, or for one that is over, after the map has moved on.
LEMMA WaitedKept ==
  ASSUME NEW m \in MapType, NEW e \in EnvType, NEW m2 \in MapType, NEW e2 \in EnvType,
         NEW th \in Positions, Waited(th, m, e),
         th.pc # "idle" => th.uuid \in Uuids,
         m2.generation \in {m.generation, m.generation + 1},
         \A u \in Uuids : Evolves(m, e, m2, e2, u)
  PROVE  Waited(th, m2, e2)
<1> DEFINE u == th.uuid
<1>1. m.generation \in Nat /\ m2.generation \in Nat /\ th.generation \in Nat
  BY MapperAssumption DEF MapType, Generations, Positions
<1>2. CASE th.pc \notin {"wait", "wait_deletion", "reopen", "close"}
  BY <1>2 DEF Waited
<1>3. CASE th.pc \in {"wait", "wait_deletion", "reopen", "close"}
  <2>1. u \in Uuids /\ Evolves(m, e, m2, e2, u)
    BY <1>3
  <2>2. th.generation \in 1 .. m.generation /\ th.generation \in 1 .. m2.generation
    BY <1>1, <1>3 DEF Waited
  <2>3. th.generation # 0 /\ th.generation # m.generation + 1
    BY <1>1, <2>2
  <2>4. th.pc \in {"reopen", "close"} =>
          ~(e2[u].state = "closing" /\ e2[u].generation = th.generation)
    BY <2>1, <2>3 DEF Waited, Evolves
  <2>5. th.pc \in {"wait", "reopen"} /\ m2.unavailable[u].status = "Closing"
          /\ m2.unavailable[u].generation = th.generation
          => m2.unavailable[u].size = th.size
    BY <2>1, <2>3 DEF Waited, Evolves
  <2> QED
    BY <2>2, <2>4, <2>5 DEF Waited
<1> QED
  BY <1>2, <1>3

\* A step moves one thread.
LEMMA StepKeeps ==
  ASSUME MapperInv, Types', Cache', Fresh', Named', Reached',
         NEW t \in Threads, NEW th \in Positions, thread' = [thread EXCEPT ![t] = th],
         \A u \in Uuids : dir[u] # "Missing" => dir'[u] # "Missing",
         th.pc # "idle" => th.uuid \in Uuids /\ dir'[th.uuid] # "Missing",
         Waited(th, map', envs'),
         map'.generation \in {map.generation, map.generation + 1},
         \A u \in Uuids : Evolves(map, envs, map', envs', u)
  PROVE  MapperInv'
<1>1. thread'[t] = th /\ \A x \in Threads \ {t} : thread'[x] = thread[x]
  BY DEF MapperInv, Types
<1>2. Working'
  BY <1>1 DEF MapperInv, Working
<1>3. ASSUME NEW x \in Threads PROVE Waited(thread'[x], map', envs')
  <2>1. CASE x = t
    BY <1>1, <2>1
  <2>2. CASE x # t
    <3>1. /\ thread[x] \in Positions /\ Waited(thread[x], map, envs)
          /\ thread[x].pc # "idle" => thread[x].uuid \in Uuids
      BY DEF MapperInv, Types, Waiting, Working
    <3>2. map \in MapType /\ envs \in EnvType /\ map' \in MapType /\ envs' \in EnvType
      BY DEF MapperInv, Types
    <3>3. Waited(thread[x], map', envs')
      BY <3>1, <3>2, WaitedKept
    <3> QED
      BY <1>1, <2>2, <3>3
  <2> QED
    BY <2>1, <2>2
<1>4. Waiting'
  BY <1>3 DEF Waiting
<1> QED
  BY <1>2, <1>4 DEF MapperInv

\* A step that changes neither the map nor the environments, nor names or directories.
LEMMA QuietStep ==
  ASSUME MapperInv, UNCHANGED <<mapping, dir, map, envs, deleter, faults>>,
         holders' \in [Uuids -> SUBSET Threads],
         NEW t \in Threads, NEW th \in Positions, thread' = [thread EXCEPT ![t] = th],
         th.pc # "idle" => th.uuid \in Uuids /\ dir[th.uuid] # "Missing",
         t = Scheduler /\ th.pc \in Deleting => \A n \in Names : mapping[n] # th.uuid,
         Waited(th, map, envs)
  PROVE  MapperInv'
<1>1. Types'
  BY DEF MapperInv, Types
<1>2. Cache' /\ Fresh' /\ Reached'
  BY DEF MapperInv, Cache, Fresh, Reached, Reachable, Unused, Agrees
<1>3. Scheduler \in Threads /\ thread'[t] = th /\ \A x \in Threads \ {t} : thread'[x] = thread[x]
  BY DEF MapperInv, Types, Threads
<1>4. Named'
  BY <1>3 DEF MapperInv, Named
<1>5. map.generation \in Nat /\ \A u \in Uuids : Evolves(map, envs, map', envs', u)
  BY MapperAssumption DEF MapperInv, Types, MapType, Generations, Evolves
<1> QED
  BY <1>1, <1>2, <1>4, <1>5, StepKeeps

-----------------------------------------------------------------------------
(* Threads that look an index up.                                           *)

\* The parts of the invariant that nearly every step needs.
LEMMA TypeFacts ==
  ASSUME MapperInv
  PROVE  /\ map \in MapType /\ envs \in EnvType /\ Scheduler \in Threads
         /\ map.generation \in Generations /\ map.generation \in Nat
         /\ \A t \in Threads : thread[t] \in Positions
         /\ \A t \in Threads : thread[t].pc # "idle" =>
              thread[t].uuid \in Uuids /\ dir[thread[t].uuid] # "Missing"
         /\ Idle \in Positions /\ Idle.pc = "idle"
  BY MapperAssumption
     DEF MapperInv, Types, MapType, Generations, Working, Threads, Idle, At, Positions, Places

\* A name is resolved to the uuid of an index whose directory is there.
LEMMA ResolveInv ==
  ASSUME MapperInv, NEW t \in Threads, NEW n \in Names, Resolve(t, n)
  PROVE  MapperInv'
<1> DEFINE th == At("get", mapping[n], 0, 0)
<1>1. mapping[n] \in Uuids /\ dir[mapping[n]] # "Missing"
  BY DEF MapperInv, Types, Named, Resolve
<1>2. th \in Positions /\ th.pc = "get" /\ th.uuid = mapping[n]
  BY <1>1, MapperAssumption DEF At, Positions, Places, Generations
<1>3. thread' = [thread EXCEPT ![t] = th] /\ UNCHANGED <<mapping, dir, map, envs, deleter, faults, holders>>
  BY DEF Resolve
<1> HIDE DEF th
<1>4. Waited(th, map, envs) /\ th.pc \notin Deleting
  BY <1>2 DEF Waited, Deleting
<1>5. holders' \in [Uuids -> SUBSET Threads]
  BY <1>3 DEF MapperInv, Types
<1> QED
  BY <1>1, <1>2, <1>3, <1>4, <1>5, QuietStep

\* A thread that goes on to another place with the index it has.
LEMMA MoveInv ==
  ASSUME MapperInv, UNCHANGED <<mapping, dir, map, envs, deleter, faults, holders>>,
         NEW t \in Threads, NEW pc \in Places, Goto(t, pc), thread[t].pc # "idle",
         t = Scheduler /\ pc \in Deleting => \A n \in Names : mapping[n] # thread[t].uuid,
         Waited([thread[t] EXCEPT !.pc = pc], map, envs)
  PROVE  MapperInv'
<1> DEFINE th == [thread[t] EXCEPT !.pc = pc]
<1>1. thread[t] \in Positions /\ thread[t].uuid \in Uuids /\ dir[thread[t].uuid] # "Missing"
  BY TypeFacts
<1>2. th \in Positions /\ th.pc = pc /\ th.uuid = thread[t].uuid
  BY <1>1 DEF Positions
<1>3. thread' = [thread EXCEPT ![t] = th]
  BY DEF Goto
<1> HIDE DEF th
<1>4. holders' \in [Uuids -> SUBSET Threads]
  BY DEF MapperInv, Types
<1>5. Waited(th, map, envs)
  BY DEF th
<1> QED
  BY <1>1, <1>2, <1>3, <1>4, <1>5, QuietStep

\* A thread that gives up.
LEMMA IdleInv ==
  ASSUME MapperInv, UNCHANGED <<mapping, dir, map, envs, deleter, faults, holders>>,
         NEW t \in Threads, thread' = [thread EXCEPT ![t] = Idle]
  PROVE  MapperInv'
<1>1. Idle \in Positions /\ Idle.pc = "idle"
  BY TypeFacts
<1>2. Waited(Idle, map, envs) /\ Idle.pc \notin Deleting
  BY <1>1 DEF Waited, Deleting
<1>3. holders' \in [Uuids -> SUBSET Threads]
  BY DEF MapperInv, Types
<1> QED
  BY <1>1, <1>2, <1>3, QuietStep

\* The closing event a thread waited for was signaled.
LEMMA WaitEndsInv ==
  ASSUME MapperInv, NEW t \in Threads, WaitEnds(t)
  PROVE  MapperInv'
<1> DEFINE pc == IF thread[t].pc = "wait" THEN "reopen" ELSE "close"
           th == [thread[t] EXCEPT !.pc = pc]
<1>1. /\ UNCHANGED <<mapping, dir, map, envs, deleter, faults, holders>> /\ Goto(t, pc)
      /\ thread[t].pc \in {"wait", "wait_deletion"} /\ Signaled(thread[t].uuid, thread[t].generation)
  BY DEF WaitEnds
<1>2. pc \in Places /\ thread[t].pc # "idle" /\ thread[t] \in Positions
  BY <1>1, TypeFacts DEF Places
<1>3. t = Scheduler /\ pc \in Deleting => \A n \in Names : mapping[n] # thread[t].uuid
  BY <1>1 DEF MapperInv, Named, Deleting
<1>4. Waited(thread[t], map, envs)
  BY DEF MapperInv, Waiting
<1>5. /\ th.pc = pc /\ th.uuid = thread[t].uuid /\ th.generation = thread[t].generation
      /\ th.size = thread[t].size
  BY <1>2 DEF Positions
<1>6. Waited(th, map, envs)
  <2>1. pc \in {"reopen", "close"} /\ (pc = "reopen" => thread[t].pc = "wait")
    BY <1>1
  <2> HIDE DEF pc, th
  <2> QED
    BY <1>1, <1>4, <1>5, <2>1 DEF Waited, Signaled
<1> HIDE DEF pc
<1> QED
  BY <1>1, <1>2, <1>3, <1>6, MoveInv

\* A wait that timed out is tried again, or given up.
LEMMA WaitTimesOutInv ==
  ASSUME MapperInv, NEW t \in Threads, WaitTimesOut(t)
  PROVE  MapperInv'
<1> DEFINE pc == IF thread[t].pc = "wait" THEN "get" ELSE "start_deletion"
<1>1. /\ UNCHANGED <<mapping, dir, map, envs, deleter, faults, holders>>
      /\ thread[t].pc \in {"wait", "wait_deletion"}
      /\ Goto(t, pc) \/ thread' = [thread EXCEPT ![t] = Idle]
  BY DEF WaitTimesOut
<1>2. CASE Goto(t, pc)
  <2>1. pc \in Places /\ thread[t].pc # "idle" /\ thread[t] \in Positions
    BY <1>1, TypeFacts DEF Places
  <2>2. t = Scheduler /\ pc \in Deleting => \A n \in Names : mapping[n] # thread[t].uuid
    BY <1>1 DEF MapperInv, Named, Deleting
  <2>3. Waited([thread[t] EXCEPT !.pc = pc], map, envs)
    BY <2>1 DEF Positions, Waited
  <2> HIDE DEF pc
  <2> QED
    BY <1>1, <1>2, <2>1, <2>2, <2>3, MoveInv
<1>3. CASE thread' = [thread EXCEPT ![t] = Idle]
  BY <1>1, <1>3, IdleInv
<1> QED
  BY <1>1, <1>2, <1>3

\* A thread that finds the lock poisoned gives up.
LEMMA PoisonedLockInv ==
  ASSUME MapperInv, NEW t \in Threads, PoisonedLock(t)
  PROVE  MapperInv'
  BY IdleInv DEF PoisonedLock

\* An available index is refreshed and handed out.
LEMMA TouchInv ==
  ASSUME MapperInv, UNCHANGED <<mapping, dir, envs, deleter, faults>>,
         NEW t \in Threads, thread[t].pc \in {"get", "open"},
         Available(thread[t].uuid), map' = Touch(map, thread[t].uuid),
         holders' = [holders EXCEPT ![thread[t].uuid] = @ \cup {t}], Goto(t, "using")
  PROVE  MapperInv'
<1> DEFINE u == thread[t].uuid
           th == [thread[t] EXCEPT !.pc = "using"]
           s == map.available
<1>1. thread[t] \in Positions /\ u \in Uuids /\ dir[u] # "Missing" /\ map \in MapType
  BY TypeFacts
<1>2. s \in Seq(Uuids) /\ Distinct(s) /\ Len(s) <= Cap /\ u \in Members(s)
  BY <1>1, AvailableMember DEF MapperInv, Cache, Lru, MapType
<1>3. /\ Without(s, u) \in Seq(Uuids) /\ Distinct(Without(s, u))
      /\ Len(Without(s, u)) = Len(s) - 1 /\ Members(Without(s, u)) = Members(s) \ {u}
  BY <1>2, WithoutMember
<1> DEFINE s1 == Without(s, u)
           s2 == Append(s1, u)
<1>4. s2 \in Seq(Uuids) /\ Distinct(s2) /\ Len(s2) = Len(s1) + 1 /\ Members(s2) = Members(s1) \cup {u}
  <2> HIDE DEF s1, u
  <2>1. s1 \in Seq(Uuids) /\ Distinct(s1) /\ u \in Uuids \ Members(s1)
    BY <1>1, <1>3 DEF s1, u
  <2> QED
    BY <2>1, AppendMember
<1>5. map' = [map EXCEPT !.available = s2]
  BY DEF Touch
<1>6. /\ s2 \in Seq(Uuids) /\ Lru(s2) /\ Members(s2) = Members(s)
  <2>1. Len(s2) = Len(s)
    BY <1>2, <1>3, <1>4
  <2> QED
    BY <1>2, <1>3, <1>4, <2>1 DEF Lru
<1> HIDE DEF s2
<1>7. /\ map' \in MapType /\ map'.available = s2
      /\ map'.unavailable = map.unavailable /\ map'.generation = map.generation
  BY <1>1, <1>5, <1>6 DEF MapType
<1>8. th \in Positions /\ th.pc = "using" /\ th.uuid = u /\ thread' = [thread EXCEPT ![t] = th]
  BY <1>1 DEF Positions, Places, Goto
<1> HIDE DEF th, u, s
<1>9. Types'
  BY <1>1, <1>7, <1>8 DEF MapperInv, Types, u
<1>10. Members(map'.available) = Members(map.available)
  BY <1>6, <1>7 DEF s
<1>11. Cache'
  BY <1>6, <1>7, <1>10 DEF MapperInv, Cache, Agrees
<1>12. Fresh' /\ Reached'
  BY <1>7, <1>10 DEF MapperInv, Fresh, Unused, Reached, Reachable
<1>13. Named'
  BY <1>8, TypeFacts DEF MapperInv, Named, Deleting, Types
<1>14. Waited(th, map', envs')
  BY <1>8 DEF Waited
<1>15. map'.generation \in {map.generation, map.generation + 1}
       /\ \A v \in Uuids : Evolves(map, envs, map', envs', v)
  BY <1>7 DEF Evolves
<1> QED
  BY <1>1, <1>8, <1>9, <1>11, <1>12, <1>13, <1>14, <1>15, StepKeeps

\* A lookup of the map: hand out, open, wait or give up.
LEMMA GetInv ==
  ASSUME MapperInv, NEW t \in Threads, Get(t)
  PROVE  MapperInv'
<1> DEFINE u == thread[t].uuid
<1>1. thread[t].pc = "get" /\ thread[t] \in Positions /\ u \in Uuids /\ dir[u] # "Missing"
  BY TypeFacts DEF Get
<1>2. CASE Status(u) = "Available"
  <2>1. Available(u)
    BY <1>1, <1>2 DEF Status, MapperInv, Types, MapType, Entries, Statuses
  <2> QED
    BY <1>1, <1>2, <2>1, TouchInv DEF Get
<1>3. CASE Status(u) = "Closing"
  <2> DEFINE entry == map.unavailable[u]
             th == At("wait", u, entry.generation, entry.size)
  <2>1. ~Available(u) /\ entry.status = "Closing" /\ entry \in Entries
    BY <1>1, <1>3, TypeFacts DEF Status, MapType
  <2>2. entry.generation \in 1 .. map.generation
    BY <1>1, <2>1 DEF MapperInv, Cache, Agrees
  <2>3. /\ th \in Positions /\ th.pc = "wait" /\ th.uuid = u
        /\ th.generation = entry.generation /\ th.size = entry.size
    BY <1>1, <2>1 DEF At, Positions, Places, Entries
  <2>4. thread' = [thread EXCEPT ![t] = th] /\ UNCHANGED <<mapping, dir, map, envs, holders, deleter, faults>>
    BY <1>1, <1>3 DEF Get
  <2>5. holders' \in [Uuids -> SUBSET Threads]
    BY <2>4 DEF MapperInv, Types
  <2> HIDE DEF th, entry
  <2>6. Waited(th, map, envs) /\ th.pc \notin Deleting
    BY <2>2, <2>3 DEF Waited, entry, Deleting
  <2> QED
    BY <1>1, <2>3, <2>4, <2>5, <2>6, QuietStep
<1>4. CASE Status(u) = "Missing"
  <2>1. Waited([thread[t] EXCEPT !.pc = "open"], map, envs)
    BY <1>1 DEF Waited, Positions
  <2>2. Goto(t, "open") /\ UNCHANGED <<mapping, dir, map, envs, holders, deleter, faults>>
    BY <1>1, <1>4 DEF Get
  <2>3. "open" \in Places /\ "open" \notin Deleting
    BY DEF Places, Deleting
  <2> QED
    BY <1>1, <2>1, <2>2, <2>3, MoveInv
<1>5. CASE Status(u) = "BeingDeleted"
  BY <1>1, <1>5, IdleInv DEF Get
<1> QED
  BY <1>2, <1>3, <1>4, <1>5 DEF Get

\* An index that is not available is forgotten: its entry is as if it never had one.
LEMMA RemovedAgrees ==
  ASSUME MapperInv, NEW u \in Uuids, u \notin Members(map.available), NEW m, m = Removed(u)
  PROVE  /\ m \in MapType /\ m.available = map.available /\ m.generation = map.generation
         /\ m.unavailable[u] = Missing
         /\ \A v \in Uuids \ {u} : m.unavailable[v] = map.unavailable[v]
         /\ \A v \in Uuids : Agrees(m, envs, v)
<1> DEFINE table == [map.unavailable EXCEPT ![u] = Missing]
<1>1. map \in MapType /\ Missing \in Entries /\ Missing.status = "Missing"
  BY MapperAssumption, TypeFacts DEF Missing, Entry, Entries, Statuses, Generations
<1>2. /\ table \in [Uuids -> Entries] /\ table[u] = Missing
      /\ \A v \in Uuids \ {u} : table[v] = map.unavailable[v]
  BY <1>1 DEF MapType
<1>3. m = [map EXCEPT !.unavailable = table]
  BY DEF Removed
<1> HIDE DEF table
<1>4. m \in MapType /\ m.available = map.available /\ m.generation = map.generation
      /\ m.unavailable = table
  BY <1>1, <1>2, <1>3 DEF MapType
<1>5. ASSUME NEW v \in Uuids PROVE Agrees(m, envs, v)
  <2>1. Agrees(map, envs, v)
    BY DEF MapperInv, Cache
  <2>2. CASE v = u
    BY <1>1, <1>2, <1>4, <2>1, <2>2 DEF Agrees
  <2>3. CASE v # u
    BY <1>2, <1>4, <2>1, <2>3 DEF Agrees
  <2> QED
    BY <2>2, <2>3
<1> QED
  BY <1>2, <1>4, <1>5

\* What opening an index with IndexMap::create leaves of the invariant for the others.
LEMMA InsertFacts ==
  ASSUME MapperInv, NEW u \in Uuids, NEW size \in Nat, u \notin Members(map.available),
         NEW m \in MapType, m.available = map.available, m.generation = map.generation,
         m.unavailable[u] = Missing,
         \A v \in Uuids \ {u} : m.unavailable[v] = map.unavailable[v],
         \A v \in Uuids : Agrees(m, envs, v),
         NEW s, s = Insert([map |-> m, envs |-> envs], u, size), s.map.generation <= MaxGenerations,
         map' = s.map, envs' = s.envs, faults' = 0 => faults = 0
  PROVE  /\ map' \in MapType /\ envs' \in EnvType /\ Cache'
         /\ map'.generation \in {map.generation, map.generation + 1}
         /\ u \in Members(map'.available)
         /\ envs'[u].state = "open" /\ envs'[u].size = size
         /\ \A v \in Uuids : Evolves(map, envs, map', envs', v)
         /\ \A v \in Uuids \ {u} : Unused(map, envs, v) => Unused(map', envs', v)
         /\ \A v \in Uuids \ {u} : Reachable(map, envs, v) => Reachable(map, envs, v)'
         /\ \A v \in Uuids \ {u} : envs[v].state # "open" => envs'[v].state # "open"
<1>1. envs \in EnvType /\ Lru(m.available) /\ u \notin Members(m.available)
  BY TypeFacts DEF MapperInv, Cache
<1>2. map' \in MapType /\ envs' \in EnvType /\ Lru(map'.available)
  BY <1>1, InsertAgrees
<1>3. \A v \in Uuids : Agrees(map', envs', v)
  BY <1>1, InsertAgrees
<1>4. /\ u \in Members(map'.available) /\ map'.unavailable[u] = Missing
      /\ envs'[u].state = "open" /\ envs'[u].size = size
      /\ map'.generation \in {m.generation, m.generation + 1}
  BY <1>1, InsertAgrees
<1>5. \A v \in Uuids \ {u} :
        \/ Untouched(m, envs, map', envs', v)
        \/ v \in Members(m.available) /\ Closed(m, envs, map', envs', v)
  BY <1>1, InsertAgrees
<1>6. Cache'
  BY <1>2, <1>3 DEF Cache
<1>7. Evolves(map, envs, map', envs', u)
  BY <1>4 DEF Evolves, Missing, Entry
<1>8. ASSUME NEW v \in Uuids \ {u}
      PROVE  /\ Evolves(map, envs, map', envs', v)
             /\ Unused(map, envs, v) => Unused(map', envs', v)
             /\ Reachable(map, envs, v) => Reachable(map, envs, v)'
             /\ envs[v].state # "open" => envs'[v].state # "open"
  <2>1. CASE Untouched(m, envs, map', envs', v)
    BY <2>1 DEF Untouched, Evolves, Unused, Reachable
  <2>2. CASE v \in Members(m.available) /\ Closed(m, envs, map', envs', v)
    BY <2>2 DEF Closed, Evolves, Unused, Reachable
  <2> QED
    BY <1>5, <2>1, <2>2
<1> QED
  BY <1>2, <1>4, <1>6, <1>7, <1>8

\* IndexMap::create for an index that was created before, whether its environment opens or not.
LEMMA CreateInv ==
  ASSUME MapperInv, NEW t \in Threads, NEW u \in Uuids, dir[u] # "Missing",
         NEW size \in Nat, u \notin Members(map.available),
         NEW m \in MapType, m.available = map.available, m.generation = map.generation,
         m.unavailable[u] = Missing,
         \A v \in Uuids \ {u} : m.unavailable[v] = map.unavailable[v],
         \A v \in Uuids : Agrees(m, envs, v),
         \A n \in Names : mapping[n] = u => envs[u].state = "closed",
         NEW next \in Positions, next.pc \in {"using", "get"}, next.uuid = u,
         Create(t, m, u, size, next), UNCHANGED <<mapping, dir, deleter>>
  PROVE  MapperInv'
<1>1. map \in MapType /\ envs \in EnvType /\ Idle \in Positions /\ Idle.pc = "idle"
      /\ Scheduler \in Threads /\ map.generation \in Nat
  BY TypeFacts
<1>2. ASSUME NEW th \in Positions, th.pc \notin Deleting, thread' = [thread EXCEPT ![t] = th]
      PROVE  Named'
  BY <1>1, <1>2 DEF MapperInv, Named, Types
<1>3. CASE /\ CanOpen(u)
           /\ LET s == Insert([map |-> m, envs |-> envs], u, size) IN
              s.map.generation <= MaxGenerations /\ map' = s.map /\ envs' = s.envs
           /\ thread' = [thread EXCEPT ![t] = next]
           /\ holders' = IF next.pc = "using" THEN [holders EXCEPT ![u] = @ \cup {t}] ELSE holders
           /\ UNCHANGED faults
  <2> DEFINE s == Insert([map |-> m, envs |-> envs], u, size)
  <2>1. s.map.generation <= MaxGenerations /\ map' = s.map /\ envs' = s.envs /\ UNCHANGED faults
    BY <1>3
  <2> HIDE DEF s
  <2>2. s = Insert([map |-> m, envs |-> envs], u, size)
    BY DEF s
  <2>3. /\ map' \in MapType /\ envs' \in EnvType /\ Cache'
        /\ map'.generation \in {map.generation, map.generation + 1} /\ u \in Members(map'.available)
    BY <2>1, <2>2, InsertFacts
  <2>4. \A v \in Uuids : Evolves(map, envs, map', envs', v)
    BY <2>1, <2>2, InsertFacts
  <2>5. \A v \in Uuids \ {u} : Unused(map, envs, v) => Unused(map', envs', v)
    BY <2>1, <2>2, InsertFacts
  <2>6. \A v \in Uuids \ {u} : Reachable(map, envs, v) => Reachable(map, envs, v)'
    BY <2>1, <2>2, InsertFacts
  <2>7. thread' = [thread EXCEPT ![t] = next] /\ holders' \in [Uuids -> SUBSET Threads]
    BY <1>3 DEF MapperInv, Types
  <2>8. Types'
    BY <2>1, <2>3, <2>7 DEF MapperInv, Types
  <2>9. Fresh'
    BY <2>5 DEF MapperInv, Fresh, Unused
  <2>10. Reached'
    <3> SUFFICES ASSUME NEW n \in Names, mapping[n] # None
                 PROVE  Reachable(map, envs, mapping[n])'
      BY DEF Reached
    <3>1. mapping[n] \in Uuids /\ Reachable(map, envs, mapping[n])
      BY DEF MapperInv, Types, Reached
    <3>2. CASE mapping[n] = u
      BY <2>3, <3>2 DEF Reachable
    <3>3. CASE mapping[n] # u
      BY <2>6, <3>1, <3>3
    <3> QED
      BY <3>2, <3>3
  <2>11. Waited(next, map', envs') /\ next.pc \notin Deleting
    BY DEF Waited, Deleting
  <2>12. Named'
    BY <1>2, <2>7, <2>11
  <2> QED
    BY <2>3, <2>4, <2>7, <2>8, <2>9, <2>10, <2>11, <2>12, StepKeeps
<1>4. CASE /\ \/ ~CanOpen(u) /\ UNCHANGED faults
              \/ faults < MaxFaults /\ faults' = faults + 1
           /\ map' = m
           /\ thread' = [thread EXCEPT ![t] = Idle]
           /\ UNCHANGED <<envs, holders>>
  <2>1. Types'
    BY <1>1, <1>4 DEF MapperInv, Types
  <2>2. Cache' /\ map'.generation = map.generation
    BY <1>4 DEF MapperInv, Cache
  <2>3. Fresh'
    BY <1>4 DEF MapperInv, Fresh, Unused
  <2>4. Waited(Idle, map', envs') /\ Idle.pc \notin Deleting
    BY <1>1 DEF Waited, Deleting
  <2>5. Named'
    BY <1>1, <1>2, <1>4, <2>4
  <2>6. \A v \in Uuids : Evolves(map, envs, map', envs', v)
    BY <1>4 DEF Evolves, Missing, Entry
  <2>7. Reached'
    <3> SUFFICES ASSUME NEW n \in Names, mapping[n] # None
                 PROVE  Reachable(map, envs, mapping[n])'
      BY DEF Reached
    <3>1. mapping[n] \in Uuids /\ Reachable(map, envs, mapping[n]) /\ dir[mapping[n]] = "Present"
      BY DEF MapperInv, Types, Reached, Named
    <3>2. faults \in Nat /\ (faults' = 0 => faults = 0)
      BY <1>4 DEF MapperInv, Types
    <3>3. CASE mapping[n] = u
      <4>1. envs[u].state = "closed" /\ CanOpen(u)
        BY <3>1, <3>3 DEF CanOpen
      <4>2. faults' # 0
        BY <1>4, <3>2, <4>1
      <4> QED
        BY <1>4, <3>3, <4>1, <4>2 DEF Reachable
    <3>4. CASE mapping[n] # u
      BY <1>4, <3>1, <3>2, <3>4 DEF Reachable
    <3> QED
      BY <3>3, <3>4
  <2> QED
    BY <1>1, <1>4, <2>1, <2>2, <2>3, <2>4, <2>5, <2>6, <2>7, StepKeeps
<1> QED
  BY <1>3, <1>4 DEF Create

\* Looking an index up: the status is read again under the write lock.
LEMMA OpenInv ==
  ASSUME MapperInv, NEW t \in Threads, Open(t)
  PROVE  MapperInv'
<1> DEFINE u == thread[t].uuid
<1>1. /\ thread[t].pc = "open" /\ thread[t] \in Positions /\ u \in Uuids /\ dir[u] # "Missing"
      /\ map \in MapType
  BY TypeFacts DEF Open
<1>2. CASE Status(u) = "Available"
  <2>1. Available(u)
    BY <1>1, <1>2 DEF Status, MapType, Entries, Statuses
  <2> QED
    BY <1>1, <1>2, <2>1, TouchInv DEF Open
<1>3. CASE Status(u) = "Missing"
  <2> DEFINE next == At("using", u, 0, 0)
  <2>1. u \notin Members(map.available) /\ map.unavailable[u].status = "Missing"
    BY <1>1, <1>3, AvailableMember DEF Status
  <2>2. \A v \in Uuids : Agrees(map, envs, v)
    BY DEF MapperInv, Cache
  <2>3. map.unavailable[u] = Missing
    BY <1>1, <2>1, <2>2 DEF Agrees
  <2>4. \A n \in Names : mapping[n] = u => envs[u].state = "closed"
    BY <1>1, <2>1, MapperAssumption DEF MapperInv, Reached, Reachable
  <2>5. next \in Positions /\ next.pc \in {"using", "get"} /\ next.uuid = u
    BY <1>1, MapperAssumption DEF At, Positions, Places, Generations
  <2>6. Create(t, map, u, 0, next) /\ UNCHANGED <<mapping, dir, deleter>>
    BY <1>1, <1>3 DEF Open
  <2> HIDE DEF next, u
  <2> QED
    BY <1>1, <2>1, <2>2, <2>3, <2>4, <2>5, <2>6, CreateInv
<1>4. CASE Status(u) = "Closing"
  <2>1. Waited([thread[t] EXCEPT !.pc = "get"], map, envs)
    BY <1>1 DEF Waited, Positions
  <2>2. Goto(t, "get") /\ UNCHANGED <<mapping, dir, map, envs, holders, deleter, faults>>
    BY <1>1, <1>4 DEF Open
  <2>3. "get" \in Places /\ "get" \notin Deleting
    BY DEF Places, Deleting
  <2> QED
    BY <1>1, <2>1, <2>2, <2>3, MoveInv
<1>5. CASE Status(u) = "BeingDeleted"
  BY <1>1, <1>5, IdleInv DEF Open
<1> QED
  BY <1>2, <1>3, <1>4, <1>5 DEF Open

\* What a thread that has waited for a closing reopens is closed.
LEMMA SameClosingClosed ==
  ASSUME MapperInv, NEW t \in Threads, thread[t].pc \in {"reopen", "close"}, SameClosing(t)
  PROVE  LET u == thread[t].uuid IN
         /\ u \in Uuids /\ u \notin Members(map.available)
         /\ map.unavailable[u].status = "Closing" /\ envs[u].state = "closed"
         /\ thread[t].pc = "reopen" => thread[t].size = map.unavailable[u].size
<1> DEFINE u == thread[t].uuid
<1>1. u \in Uuids /\ map \in MapType /\ envs \in EnvType
  BY TypeFacts
<1>2. u \notin Members(map.available) /\ map.unavailable[u].status = "Closing"
      /\ map.unavailable[u].generation = thread[t].generation
  BY <1>1, AvailableMember DEF SameClosing, Status
<1>3. Agrees(map, envs, u) /\ Waited(thread[t], map, envs)
  BY <1>1 DEF MapperInv, Cache, Waiting
<1>4. envs[u].state \in {"closed", "closing"} /\ envs[u].generation = thread[t].generation
  BY <1>1, <1>2, <1>3 DEF Agrees, EnvType, States
<1> QED
  BY <1>1, <1>2, <1>3, <1>4 DEF Waited

\* ReopenableIndex::reopen
LEMMA ReopenInv ==
  ASSUME MapperInv, NEW t \in Threads, Reopen(t)
  PROVE  MapperInv'
<1> DEFINE u == thread[t].uuid
<1>1. /\ thread[t].pc = "reopen" /\ thread[t] \in Positions /\ u \in Uuids /\ dir[u] # "Missing"
      /\ map \in MapType
  BY TypeFacts DEF Reopen
<1>2. CASE SameClosing(t)
  <2> DEFINE next == At("get", u, 0, 0)
             m == Removed(u)
             size == thread[t].size
  <2>1. u \notin Members(map.available) /\ envs[u].state = "closed"
    BY <1>1, <1>2, SameClosingClosed
  <2>2. next \in Positions /\ next.pc \in {"using", "get"} /\ next.uuid = u /\ size \in Nat
    BY <1>1, MapperAssumption DEF At, Positions, Places, Generations
  <2>3. Create(t, m, u, size, next) /\ UNCHANGED <<mapping, dir, deleter>>
    BY <1>1, <1>2 DEF Reopen
  <2>4. m = Removed(u)
    OBVIOUS
  <2> HIDE DEF next, m, u, size
  <2>5. /\ m \in MapType /\ m.available = map.available /\ m.generation = map.generation
        /\ m.unavailable[u] = Missing
    BY <1>1, <2>1, <2>4, RemovedAgrees
  <2>6. \A v \in Uuids \ {u} : m.unavailable[v] = map.unavailable[v]
    BY <1>1, <2>1, <2>4, RemovedAgrees
  <2>7. \A v \in Uuids : Agrees(m, envs, v)
    BY <1>1, <2>1, <2>4, RemovedAgrees
  <2> QED
    BY <1>1, <2>1, <2>2, <2>3, <2>5, <2>6, <2>7, CreateInv
<1>3. CASE ~SameClosing(t)
  <2>1. Waited([thread[t] EXCEPT !.pc = "get"], map, envs)
    BY <1>1 DEF Waited, Positions
  <2>2. Goto(t, "get") /\ UNCHANGED <<mapping, dir, map, envs, holders, deleter, faults>>
    BY <1>1, <1>3 DEF Reopen
  <2>3. "get" \in Places /\ "get" \notin Deleting
    BY DEF Places, Deleting
  <2> QED
    BY <1>1, <2>1, <2>2, <2>3, MoveInv
<1> QED
  BY <1>2, <1>3

\* The last clone of an environment that is being closed is dropped: it is closed.
LEMMA ReleaseInv ==
  ASSUME MapperInv, NEW t \in Threads, Release(t)
  PROVE  MapperInv'
<1> DEFINE u == thread[t].uuid
           env == IF envs[u].state = "closing" /\ holders[u] = {t}
                  THEN Environment("closed", envs[u].generation, envs[u].size) ELSE envs[u]
<1>1. /\ u \in Uuids /\ envs \in EnvType /\ Idle \in Positions /\ Idle.pc = "idle"
      /\ Scheduler \in Threads /\ map.generation \in Nat
  BY TypeFacts DEF Release
<1>2. /\ envs' = [envs EXCEPT ![u] = env] /\ thread' = [thread EXCEPT ![t] = Idle]
      /\ holders' = [holders EXCEPT ![u] = @ \ {t}]
      /\ UNCHANGED <<mapping, dir, map, deleter, faults>>
  BY DEF Release
<1>3. /\ env \in [state : States, generation : Generations, size : Nat]
      /\ env.generation = envs[u].generation /\ env.size = envs[u].size
      /\ env = envs[u] \/ (envs[u].state = "closing" /\ env.state = "closed")
  BY <1>1 DEF Environment, EnvType, States
<1> HIDE DEF env
<1>4. envs' \in EnvType /\ envs'[u] = env /\ \A v \in Uuids \ {u} : envs'[v] = envs[v]
  BY <1>1, <1>2, <1>3 DEF EnvType
<1>5. holders' \in [Uuids -> SUBSET Threads]
  BY <1>2 DEF MapperInv, Types
<1> HIDE DEF u
<1>6. Types'
  BY <1>1, <1>2, <1>4, <1>5 DEF MapperInv, Types
<1>7. Cache'
  <2> SUFFICES ASSUME NEW v \in Uuids PROVE Agrees(map, envs', v)
    BY <1>2 DEF MapperInv, Cache
  <2>1. Agrees(map, envs, v)
    BY DEF MapperInv, Cache
  <2> QED
    BY <1>1, <1>3, <1>4, <2>1 DEF Agrees
<1>8. Fresh'
  BY <1>1, <1>2, <1>3, <1>4 DEF MapperInv, Fresh, Unused
<1>9. Named'
  BY <1>1, <1>2 DEF MapperInv, Named, Types, Deleting
<1>10. Reached'
  BY <1>1, <1>2, <1>3, <1>4 DEF MapperInv, Types, Reached, Reachable
<1>11. \A v \in Uuids : Evolves(map, envs, map', envs', v)
  BY <1>1, <1>2, <1>3, <1>4 DEF Evolves
<1>12. Waited(Idle, map', envs')
  BY <1>1 DEF Waited
<1> QED
  BY <1>1, <1>2, <1>6, <1>7, <1>8, <1>9, <1>10, <1>11, <1>12, StepKeeps

-----------------------------------------------------------------------------
(* The scheduler thread and the deleters.                                   *)

\* create_index: the uuid it takes is nowhere.
LEMMA CreateIndexInv ==
  ASSUME MapperInv, NEW n \in Names, CreateIndex(n)
  PROVE  MapperInv'
<1> DEFINE Created(u, s) ==
             /\ dir[u] = "Missing" /\ dir' = [dir EXCEPT ![u] = "Present"]
             /\ mapping' = [mapping EXCEPT ![n] = u]
             /\ s = Insert(Here, u, 0) /\ s.map.generation <= MaxGenerations
             /\ map' = s.map /\ envs' = s.envs
             /\ holders' = [holders EXCEPT ![u] = {Scheduler}]
             /\ thread' = [thread EXCEPT ![Scheduler] = At("using", u, 0, 0)]
             /\ UNCHANGED <<deleter, faults>>
<1>1. PICK u \in Uuids : Created(u, Insert(Here, u, 0))
  BY DEF CreateIndex, NewUuid
<1>2. PICK s : Created(u, s)
  BY <1>1
<1>3. /\ map \in MapType /\ map.generation \in Nat /\ Scheduler \in Threads
      /\ \A v \in Uuids : Agrees(map, envs, v)
  BY TypeFacts DEF MapperInv, Cache
<1>4. Unused(map, envs, u) /\ deleter[u] = "none" /\ \A k \in Names : mapping[k] # u
  BY <1>2, MapperAssumption DEF MapperInv, Fresh, Named
<1>5. u \notin Members(map.available) /\ map.unavailable[u] = Missing
  BY <1>4 DEF Unused
<1>6. /\ s = Insert([map |-> map, envs |-> envs], u, 0) /\ s.map.generation <= MaxGenerations
      /\ map' = s.map /\ envs' = s.envs /\ UNCHANGED faults
  BY <1>2 DEF Here
<1>7. /\ map' \in MapType /\ envs' \in EnvType /\ Cache'
      /\ map'.generation \in {map.generation, map.generation + 1} /\ u \in Members(map'.available)
  BY <1>3, <1>5, <1>6, InsertFacts
<1>8. \A v \in Uuids : Evolves(map, envs, map', envs', v)
  BY <1>3, <1>5, <1>6, InsertFacts
<1>9. \A v \in Uuids \ {u} : Unused(map, envs, v) => Unused(map', envs', v)
  BY <1>3, <1>5, <1>6, InsertFacts
<1>10. \A v \in Uuids \ {u} : Reachable(map, envs, v) => Reachable(map, envs, v)'
  BY <1>3, <1>5, <1>6, InsertFacts
<1>11. /\ dir' \in [Uuids -> {"Missing", "Present", "Removed"}] /\ dir'[u] = "Present"
       /\ \A v \in Uuids \ {u} : dir'[v] = dir[v]
       /\ mapping' \in [Names -> Uuids \cup {None}] /\ mapping'[n] = u
       /\ \A k \in Names \ {n} : mapping'[k] = mapping[k]
       /\ deleter' = deleter /\ faults' = faults
  BY <1>2 DEF MapperInv, Types
<1> DEFINE th == At("using", u, 0, 0)
<1>12. th \in Positions /\ th.pc = "using" /\ th.uuid = u /\ thread' = [thread EXCEPT ![Scheduler] = th]
  BY <1>2, MapperAssumption DEF At, Positions, Places, Generations
<1>13. holders' \in [Uuids -> SUBSET Threads]
  BY <1>2, <1>3 DEF MapperInv, Types
<1> HIDE DEF th, Created
<1>14. Types'
  BY <1>7, <1>11, <1>12, <1>13 DEF MapperInv, Types
<1>15. Fresh'
  BY <1>9, <1>11 DEF MapperInv, Fresh, Unused
<1>16. Named'
  <2>1. thread'[Scheduler] = th
    BY <1>3, <1>12 DEF MapperInv, Types
  <2>2. ASSUME NEW k \in Names, mapping'[k] # None
        PROVE  dir'[mapping'[k]] = "Present" /\ deleter'[mapping'[k]] = "none"
    <3>1. mapping[k] \in Uuids \cup {None}
      BY DEF MapperInv, Types
    <3>2. CASE k = n
      BY <1>4, <1>11, <3>2
    <3>3. CASE k # n
      BY <1>11, <2>2, <3>1, <3>3 DEF MapperInv, Named
    <3> QED
      BY <3>2, <3>3
  <2>3. ASSUME NEW j \in Names, NEW k \in Names, mapping'[j] # None, mapping'[j] = mapping'[k]
        PROVE  j = k
    BY <1>4, <1>11, <2>3 DEF MapperInv, Named
  <2> QED
    BY <1>12, <2>1, <2>2, <2>3 DEF Named, Deleting
<1>17. Reached'
  <2> SUFFICES ASSUME NEW k \in Names, mapping'[k] # None
               PROVE  Reachable(map, envs, mapping[k])'
    BY DEF Reached
  <2>1. CASE k = n
    BY <1>7, <1>11, <2>1 DEF Reachable
  <2>2. CASE k # n
    <3>1. mapping'[k] = mapping[k] /\ mapping[k] \in Uuids \ {u} /\ Reachable(map, envs, mapping[k])
      BY <1>4, <1>11, <2>2 DEF MapperInv, Types, Reached
    <3> QED
      BY <1>10, <3>1 DEF Reachable
  <2> QED
    BY <2>1, <2>2
<1>18. Waited(th, map', envs')
  BY <1>12 DEF Waited
<1> QED
  BY <1>3, <1>7, <1>8, <1>11, <1>12, <1>14, <1>15, <1>16, <1>17, <1>18, StepKeeps

\* A step of no thread that uses an index.
LEMMA StillStep ==
  ASSUME MapperInv, Types', Cache', Fresh', Named', Reached', UNCHANGED thread,
         \A u \in Uuids : dir[u] # "Missing" => dir'[u] # "Missing",
         map'.generation \in {map.generation, map.generation + 1},
         \A u \in Uuids : Evolves(map, envs, map', envs', u)
  PROVE  MapperInv'
<1> DEFINE th == thread[Scheduler]
<1>1. /\ Scheduler \in Threads /\ th \in Positions /\ map \in MapType /\ envs \in EnvType
      /\ th.pc # "idle" => th.uuid \in Uuids /\ dir[th.uuid] # "Missing"
  BY TypeFacts
<1>2. map' \in MapType /\ envs' \in EnvType /\ thread' = [thread EXCEPT ![Scheduler] = th]
  BY <1>1 DEF MapperInv, Types
<1>3. Waited(th, map, envs)
  BY <1>1 DEF MapperInv, Waiting
<1> HIDE DEF th
<1>4. Waited(th, map', envs')
  BY <1>1, <1>2, <1>3, WaitedKept
<1> QED
  BY <1>1, <1>2, <1>4, StepKeeps

\* create_index when it fails: nothing that has a name is concerned.
LEMMA CreateIndexFailsInv ==
  ASSUME MapperInv, NEW n \in Names, CreateIndexFails(n)
  PROVE  MapperInv'
<1> DEFINE Inserted(u, s) ==
             /\ s = Insert([map |-> map, envs |-> envs], u, 0)
             /\ s.map.generation <= MaxGenerations /\ map' = s.map /\ envs' = s.envs
<1>1. PICK u \in Uuids :
        /\ dir[u] = "Missing" /\ dir' = [dir EXCEPT ![u] = "Present"]
        /\ UNCHANGED <<map, envs>> \/ Inserted(u, Insert([map |-> map, envs |-> envs], u, 0))
  BY DEF CreateIndexFails, NewUuid, Here
<1>2. UNCHANGED <<mapping, holders, thread, deleter>> /\ faults' = faults + 1 /\ faults \in Nat
  BY DEF CreateIndexFails, MapperInv, Types
<1>3. /\ map \in MapType /\ envs \in EnvType /\ map.generation \in Nat
      /\ \A v \in Uuids : Agrees(map, envs, v)
  BY TypeFacts DEF MapperInv, Cache
<1>4. Unused(map, envs, u) /\ deleter[u] = "none" /\ \A k \in Names : mapping[k] # u
  BY <1>1, MapperAssumption DEF MapperInv, Fresh, Named
<1>5. /\ map' \in MapType /\ envs' \in EnvType /\ Cache'
      /\ map'.generation \in {map.generation, map.generation + 1}
      /\ \A v \in Uuids : Evolves(map, envs, map', envs', v)
      /\ \A v \in Uuids \ {u} : Unused(map, envs, v) => Unused(map', envs', v)
      /\ \A v \in Uuids \ {u} : Reachable(map, envs, v) => Reachable(map, envs, v)'
  <2>1. CASE UNCHANGED <<map, envs>>
    BY <1>2, <1>3, <2>1 DEF MapperInv, Cache, Evolves, Reachable, Unused
  <2>2. CASE Inserted(u, Insert([map |-> map, envs |-> envs], u, 0))
    <3>1. PICK s : Inserted(u, s)
      BY <2>2
    <3>2. u \notin Members(map.available) /\ map.unavailable[u] = Missing /\ (faults' = 0 => faults = 0)
      BY <1>2, <1>4 DEF Unused
    <3> QED
      BY <1>3, <3>1, <3>2, InsertFacts
  <2> QED
    BY <1>1, <2>1, <2>2
<1>6. /\ dir' \in [Uuids -> {"Missing", "Present", "Removed"}] /\ dir'[u] = "Present"
      /\ \A v \in Uuids \ {u} : dir'[v] = dir[v]
  BY <1>1 DEF MapperInv, Types
<1> HIDE DEF Inserted
<1>7. Types'
  BY <1>2, <1>5, <1>6 DEF MapperInv, Types
<1>8. Fresh'
  BY <1>2, <1>5, <1>6 DEF MapperInv, Fresh, Unused
<1>9. Named'
  BY <1>2, <1>4, <1>6 DEF MapperInv, Named, Types
<1>10. Reached'
  <2> SUFFICES ASSUME NEW k \in Names, mapping[k] # None
               PROVE  Reachable(map, envs, mapping[k])'
    BY <1>2 DEF Reached
  <2>1. mapping[k] \in Uuids \ {u} /\ Reachable(map, envs, mapping[k]) /\ mapping' = mapping
    BY <1>2, <1>4 DEF MapperInv, Types, Reached
  <2> QED
    BY <1>5, <2>1 DEF Reachable
<1> QED
  BY <1>2, <1>5, <1>6, <1>7, <1>8, <1>9, <1>10, StillStep

\* close_for_resize
LEMMA ResizeIndexInv ==
  ASSUME MapperInv, NEW n \in Names, ResizeIndex(n)
  PROVE  MapperInv'
<1> DEFINE u == mapping[n]
           old == map.available
           m == [map EXCEPT !.available = Without(old, u)]
           from == [map |-> m, envs |-> envs]
           s == Close(from, u, 1)
<1>1. /\ u \in Uuids /\ u \in Members(old) /\ map \in MapType /\ envs \in EnvType
      /\ map.generation \in Nat /\ map.generation < MaxGenerations
      /\ old \in Seq(Uuids) /\ Distinct(old) /\ Len(old) <= Cap
  BY TypeFacts, AvailableMember DEF ResizeIndex, MapperInv, Types, Cache, Lru, MapType
<1>2. /\ map' = s.map /\ envs' = s.envs
      /\ UNCHANGED <<mapping, dir, holders, thread, deleter, faults>>
  BY DEF ResizeIndex
<1> HIDE DEF u, old
<1>3. /\ Without(old, u) \in Seq(Uuids) /\ Distinct(Without(old, u))
      /\ Len(Without(old, u)) = Len(old) - 1 /\ Members(Without(old, u)) = Members(old) \ {u}
  BY <1>1, WithoutMember
<1>4. /\ m \in MapType /\ m.available = Without(old, u) /\ m.unavailable = map.unavailable
      /\ m.generation = map.generation
  BY <1>1, <1>3 DEF MapType
<1> HIDE DEF m
<1>5. \A v \in Uuids \ {u} : Agrees(m, envs, v)
  BY <1>3, <1>4 DEF MapperInv, Cache, Agrees, old
<1>6. from = [map |-> m, envs |-> envs] /\ s = Close(from, u, 1) /\ u \notin Members(m.available)
      /\ m.generation < MaxGenerations /\ 1 \in Nat
  BY <1>1, <1>3, <1>4
<1> HIDE DEF s, from
<1>7. map' \in MapType /\ envs' \in EnvType /\ map'.available = m.available
  BY <1>1, <1>2, <1>4, <1>5, <1>6, CloseAgrees
<1>8. \A v \in Uuids : Agrees(map', envs', v)
  BY <1>1, <1>2, <1>4, <1>5, <1>6, CloseAgrees
<1>9. Closed(m, envs, map', envs', u)
  BY <1>1, <1>2, <1>4, <1>5, <1>6, CloseAgrees
<1>10. \A v \in Uuids \ {u} : Untouched(m, envs, map', envs', v)
  BY <1>1, <1>2, <1>4, <1>5, <1>6, CloseAgrees
<1>11. Types'
  BY <1>2, <1>7 DEF MapperInv, Types
<1>12. Len(old) \in Nat /\ Cap \in Nat
  BY <1>1, MapperAssumption
<1>13. Cache'
  BY <1>1, <1>3, <1>4, <1>7, <1>8, <1>12 DEF Cache, Lru
<1>14. \A v \in Uuids \ {u} : Untouched(map, envs, map', envs', v)
  BY <1>3, <1>4, <1>10 DEF Untouched, old
<1>15. Fresh'
  BY <1>1, <1>2, <1>14 DEF MapperInv, Fresh, Unused, Untouched, old
<1>16. Named'
  BY <1>2 DEF MapperInv, Named
<1>17. Reached'
  <2> SUFFICES ASSUME NEW k \in Names, mapping[k] # None
               PROVE  Reachable(map, envs, mapping[k])'
    BY <1>2 DEF Reached
  <2>1. mapping[k] \in Uuids /\ Reachable(map, envs, mapping[k]) /\ faults' = faults /\ mapping' = mapping
    BY <1>2 DEF MapperInv, Types, Reached
  <2>2. CASE mapping[k] = u
    BY <1>9, <2>1, <2>2 DEF Closed, Reachable
  <2>3. CASE mapping[k] # u
    BY <1>14, <2>1, <2>3 DEF Untouched, Reachable
  <2> QED
    BY <2>2, <2>3
<1>18. ASSUME NEW v \in Uuids PROVE Evolves(map, envs, map', envs', v)
  BY <1>4, <1>9, <1>14 DEF Closed, Untouched, Evolves
<1>19. map'.generation \in {map.generation, map.generation + 1}
  BY <1>4, <1>9 DEF Closed
<1> QED
  BY <1>2, <1>11, <1>13, <1>15, <1>16, <1>17, <1>18, <1>19, StillStep

\* The swap of two names, in one transaction.
LEMMA SwapIndexesInv ==
  ASSUME MapperInv, NEW m \in Names, NEW n \in Names, SwapIndexes(m, n)
  PROVE  MapperInv'
<1>1. /\ mapping' \in [Names -> Uuids \cup {None}]
      /\ mapping'[m] = mapping[n] /\ mapping'[n] = mapping[m] /\ m # n
      /\ \A k \in Names \ {m, n} : mapping'[k] = mapping[k]
      /\ UNCHANGED <<dir, map, envs, holders, thread, deleter, faults>>
  BY DEF SwapIndexes, MapperInv, Types
<1>2. Types'
  BY <1>1 DEF MapperInv, Types
<1>3. Cache' /\ Fresh'
  BY <1>1 DEF MapperInv, Cache, Fresh
<1>4. \A k \in Names : \E j \in Names : mapping'[k] = mapping[j]
  BY <1>1
<1>5. Named'
  <2>1. ASSUME NEW k \in Names, mapping'[k] # None
        PROVE  dir'[mapping'[k]] = "Present" /\ deleter'[mapping'[k]] = "none"
    BY <1>1, <1>4, <2>1 DEF MapperInv, Named
  <2>2. ASSUME NEW j \in Names, NEW k \in Names, mapping'[j] # None, mapping'[j] = mapping'[k]
        PROVE  j = k
    BY <1>1, <2>2 DEF MapperInv, Named
  <2>3. thread'[Scheduler].pc \in Deleting => \A k \in Names : mapping'[k] # thread'[Scheduler].uuid
    BY <1>1, <1>4 DEF MapperInv, Named
  <2> QED
    BY <2>1, <2>2, <2>3 DEF Named
<1>6. Reached'
  BY <1>1, <1>4 DEF MapperInv, Reached, Reachable
<1>7. /\ map'.generation \in {map.generation, map.generation + 1}
      /\ \A v \in Uuids : Evolves(map, envs, map', envs', v)
  BY <1>1, TypeFacts DEF Evolves
<1> QED
  BY <1>1, <1>2, <1>3, <1>5, <1>6, <1>7, StillStep

\* The transaction of delete_index takes the name away.
LEMMA DeleteIndexInv ==
  ASSUME MapperInv, NEW n \in Names, DeleteIndex(n)
  PROVE  MapperInv'
<1> DEFINE u == mapping[n]
           th == At("start_deletion", u, 0, 0)
<1>1. u \in Uuids /\ dir[u] # "Missing" /\ Scheduler \in Threads /\ map.generation \in Nat
  BY TypeFacts DEF DeleteIndex, MapperInv, Types, Named
<1>2. th \in Positions /\ th.pc = "start_deletion" /\ th.uuid = u
  BY <1>1, MapperAssumption DEF At, Positions, Places, Generations
<1>3. /\ thread' = [thread EXCEPT ![Scheduler] = th] /\ mapping' = [mapping EXCEPT ![n] = None]
      /\ UNCHANGED <<dir, map, envs, holders, deleter, faults>>
  BY DEF DeleteIndex
<1>4. /\ mapping' \in [Names -> Uuids \cup {None}] /\ mapping'[n] = None
      /\ \A k \in Names \ {n} : mapping'[k] = mapping[k] /\ mapping[k] # u
  BY <1>1, <1>3, MapperAssumption DEF MapperInv, Types, Named
<1> HIDE DEF th, u
<1>5. Types'
  BY <1>2, <1>3, <1>4 DEF MapperInv, Types
<1>6. Cache' /\ Fresh'
  BY <1>3 DEF MapperInv, Cache, Fresh
<1>7. thread'[Scheduler] = th
  BY <1>1, <1>3 DEF MapperInv, Types
<1>8. Named'
  <2>1. ASSUME NEW k \in Names, mapping'[k] # None
        PROVE  dir'[mapping'[k]] = "Present" /\ deleter'[mapping'[k]] = "none"
    BY <1>3, <1>4, <2>1 DEF MapperInv, Named
  <2>2. ASSUME NEW j \in Names, NEW k \in Names, mapping'[j] # None, mapping'[j] = mapping'[k]
        PROVE  j = k
    BY <1>4, <2>2 DEF MapperInv, Named
  <2>3. \A k \in Names : mapping'[k] # u
    BY <1>1, <1>4, MapperAssumption
  <2> QED
    BY <1>2, <1>7, <2>1, <2>2, <2>3 DEF Named
<1>9. Reached'
  BY <1>3, <1>4 DEF MapperInv, Reached, Reachable
<1>10. /\ map'.generation \in {map.generation, map.generation + 1}
       /\ \A v \in Uuids : Evolves(map, envs, map', envs', v)
  BY <1>3 DEF Evolves
<1>11. Waited(th, map', envs')
  BY <1>2 DEF Waited
<1> QED
  BY <1>1, <1>2, <1>3, <1>5, <1>6, <1>8, <1>9, <1>10, <1>11, StepKeeps

\* A step of the deletion of an index: it concerns nothing that has a name.
LEMMA UnnamedStep ==
  ASSUME MapperInv, NEW u \in Uuids, dir[u] # "Missing", \A n \in Names : mapping[n] # u,
         map' \in MapType, envs' \in EnvType, Cache', map'.generation = map.generation,
         \A v \in Uuids \ {u} : Untouched(map, envs, map', envs', v),
         Evolves(map, envs, map', envs', u),
         dir' \in [Uuids -> {"Missing", "Present", "Removed"}], dir'[u] # "Missing",
         \A v \in Uuids \ {u} : dir'[v] = dir[v],
         deleter' \in [Uuids -> {"none", "wait", "remove", "end", "done", "panicked"}],
         \A v \in Uuids \ {u} : deleter'[v] = deleter[v],
         faults' \in Nat, faults' = 0 => faults = 0,
         UNCHANGED <<mapping, holders>>,
         NEW th \in Positions, thread' = [thread EXCEPT ![Scheduler] = th],
         th.pc # "idle" => th.uuid \in Uuids /\ dir[th.uuid] # "Missing",
         th.pc \in Deleting => \A n \in Names : mapping[n] # th.uuid,
         Waited(th, map', envs')
  PROVE  MapperInv'
<1>1. Scheduler \in Threads /\ map.generation \in Nat
  BY TypeFacts
<1>2. Types'
  BY <1>1 DEF MapperInv, Types
<1>3. Fresh'
  BY DEF MapperInv, Fresh, Unused, Untouched
<1>4. thread'[Scheduler] = th
  BY <1>1 DEF MapperInv, Types
<1>5. Named'
  <2>1. ASSUME NEW k \in Names, mapping'[k] # None
        PROVE  dir'[mapping'[k]] = "Present" /\ deleter'[mapping'[k]] = "none"
    BY <2>1 DEF MapperInv, Named, Types
  <2> QED
    BY <1>4, <2>1 DEF MapperInv, Named
<1>6. Reached'
  <2> SUFFICES ASSUME NEW k \in Names, mapping[k] # None
               PROVE  Reachable(map, envs, mapping[k])'
    BY DEF Reached
  <2>1. mapping[k] \in Uuids \ {u} /\ Reachable(map, envs, mapping[k]) /\ mapping' = mapping
    BY DEF MapperInv, Types, Reached
  <2> QED
    BY <2>1 DEF Untouched, Reachable
<1>7. \A v \in Uuids : Evolves(map, envs, map', envs', v)
  BY DEF Untouched, Evolves
<1>8. \A v \in Uuids : dir[v] # "Missing" => dir'[v] # "Missing"
  OBVIOUS
<1>9. th.pc # "idle" => th.uuid \in Uuids /\ dir'[th.uuid] # "Missing"
  BY <1>8
<1> QED
  BY <1>1, <1>2, <1>3, <1>5, <1>6, <1>7, <1>8, <1>9, StepKeeps

\* One round of the loop of delete_index.
LEMMA StartDeletionInv ==
  ASSUME MapperInv, StartDeletion
  PROVE  MapperInv'
<1> DEFINE u == thread[Scheduler].uuid
<1>1. /\ u \in Uuids /\ dir[u] # "Missing" /\ map \in MapType /\ envs \in EnvType
      /\ Idle \in Positions /\ Idle.pc = "idle" /\ map.generation \in Nat
  BY TypeFacts DEF StartDeletion
<1>2. \A n \in Names : mapping[n] # u
  BY DEF MapperInv, Named, StartDeletion, Deleting
<1>3. UNCHANGED <<mapping, dir, holders, faults>> /\ faults' \in Nat
      /\ dir' \in [Uuids -> {"Missing", "Present", "Removed"}]
  BY DEF StartDeletion, MapperInv, Types
<1>4. Agrees(map, envs, u) /\ \A v \in Uuids : Agrees(map, envs, v)
  BY <1>1 DEF MapperInv, Cache
<1> HIDE DEF u
<1>5. CASE Status(u) = "Available"
  <2> DEFINE old == map.available
             table == [map.unavailable EXCEPT ![u] = BeingDeleted]
             env == Environment(IF holders[u] = {} THEN "closed" ELSE "closing", 0, envs[u].size)
  <2>1. u \in Members(old) /\ old \in Seq(Uuids) /\ Lru(old)
    BY <1>1, <1>5, AvailableMember DEF Status, MapType, Entries, Statuses, MapperInv, Cache
  <2>2. /\ Without(old, u) \in Seq(Uuids) /\ Distinct(Without(old, u))
        /\ Len(Without(old, u)) = Len(old) - 1 /\ Members(Without(old, u)) = Members(old) \ {u}
    BY <2>1, WithoutMember DEF Lru
  <2>3. /\ BeingDeleted \in Entries /\ BeingDeleted.status = "BeingDeleted"
    BY MapperAssumption DEF BeingDeleted, Entry, Entries, Statuses, Generations
  <2>4. /\ table \in [Uuids -> Entries] /\ table[u] = BeingDeleted
        /\ \A v \in Uuids \ {u} : table[v] = map.unavailable[v]
    BY <1>1, <2>3 DEF MapType
  <2>5. /\ map' = [map EXCEPT !.available = Without(old, u), !.unavailable = table]
        /\ envs' = [envs EXCEPT ![u] = env]
        /\ deleter' = [deleter EXCEPT ![u] = "wait"] /\ thread' = [thread EXCEPT ![Scheduler] = Idle]
    BY <1>5 DEF StartDeletion, Shut, u
  <2>6. /\ env \in [state : States, generation : Generations, size : Nat]
        /\ env.state # "open" /\ env.generation = 0
    BY <1>1, MapperAssumption DEF Environment, EnvType, States, Generations
  <2> HIDE DEF table, env
  <2>7. /\ map' \in MapType /\ map'.available = Without(old, u) /\ map'.unavailable = table
        /\ map'.generation = map.generation
    BY <1>1, <2>2, <2>4, <2>5 DEF MapType
  <2>8. envs' \in EnvType /\ envs'[u] = env /\ \A v \in Uuids \ {u} : envs'[v] = envs[v]
    BY <1>1, <2>5, <2>6 DEF EnvType
  <2>9. /\ deleter' \in [Uuids -> {"none", "wait", "remove", "end", "done", "panicked"}]
        /\ \A v \in Uuids \ {u} : deleter'[v] = deleter[v]
    BY <2>5 DEF MapperInv, Types
  <2>10. \A v \in Uuids \ {u} : Untouched(map, envs, map', envs', v)
    BY <2>2, <2>4, <2>7, <2>8 DEF Untouched
  <2>11. Evolves(map, envs, map', envs', u)
    BY <2>3, <2>4, <2>6, <2>7, <2>8 DEF Evolves
  <2>12. Cache'
    <3>1. ASSUME NEW v \in Uuids PROVE Agrees(map', envs', v)
      <4>1. CASE v = u
        BY <2>2, <2>3, <2>4, <2>6, <2>7, <2>8, <4>1 DEF Agrees
      <4>2. CASE v # u
        BY <1>4, <2>7, <2>10, <4>2 DEF Agrees, Untouched
      <4> QED
        BY <4>1, <4>2
    <3>2. Lru(map'.available)
      BY <2>1, <2>2, <2>7, MapperAssumption DEF Lru
    <3> QED
      BY <3>1, <3>2 DEF Cache
  <2>13. Waited(Idle, map', envs') /\ Idle.pc \notin Deleting
    BY <1>1 DEF Waited, Deleting
  <2> QED
    BY <1>1, <1>2, <1>3, <2>5, <2>7, <2>8, <2>9, <2>10, <2>11, <2>12, <2>13, UnnamedStep
<1>6. CASE Status(u) = "Closing"
  <2> DEFINE g == map.unavailable[u].generation
             wait == [At("wait_deletion", u, g, 0) EXCEPT !.tries = thread[Scheduler].tries + 1]
             th == IF thread[Scheduler].tries + 1 >= MaxTries THEN Idle ELSE wait
             m == Removed(u)
  <2>1. u \notin Members(map.available) /\ map.unavailable[u].status = "Closing"
    BY <1>1, <1>6, AvailableMember DEF Status
  <2>2. g \in 1 .. map.generation /\ g \in Generations
    BY <1>1, <1>4, <2>1 DEF Agrees, MapType, Entries
  <2>3. /\ th \in Positions /\ th.pc \in {"idle", "wait_deletion"}
        /\ th.pc = "wait_deletion" => th.uuid = u /\ th.generation = g
    <3>1. thread[Scheduler].tries \in Nat
      BY TypeFacts DEF Positions
    <3>2. wait \in Positions /\ wait.pc = "wait_deletion" /\ wait.uuid = u /\ wait.generation = g
      BY <1>1, <2>2, <3>1 DEF At, Positions, Places
    <3> HIDE DEF wait
    <3> QED
      BY <1>1, <3>2
  <2>4. /\ map' = m /\ thread' = [thread EXCEPT ![Scheduler] = th] /\ UNCHANGED <<envs, deleter>>
        /\ m = Removed(u)
    BY <1>6 DEF StartDeletion, u
  <2> HIDE DEF m, th
  <2>5. /\ m \in MapType /\ m.available = map.available /\ m.generation = map.generation
        /\ m.unavailable[u] = Missing
    BY <1>1, <2>1, <2>4, RemovedAgrees
  <2>6. \A v \in Uuids \ {u} : m.unavailable[v] = map.unavailable[v]
    BY <1>1, <2>1, <2>4, RemovedAgrees
  <2>7. \A v \in Uuids : Agrees(m, envs, v)
    BY <1>1, <2>1, <2>4, RemovedAgrees
  <2>8. Cache'
    BY <2>4, <2>5, <2>7 DEF MapperInv, Cache
  <2>9. \A v \in Uuids \ {u} : Untouched(map, envs, map', envs', v)
    BY <2>4, <2>5, <2>6 DEF Untouched
  <2>10. Evolves(map, envs, map', envs', u)
    BY <2>4, <2>5 DEF Evolves, Missing, Entry
  <2>11. Waited(th, map', envs')
    BY <2>2, <2>3, <2>4, <2>5 DEF Waited
  <2>12. deleter' \in [Uuids -> {"none", "wait", "remove", "end", "done", "panicked"}]
         /\ map' \in MapType /\ envs' \in EnvType /\ map'.generation = map.generation
    BY <1>1, <2>4, <2>5 DEF MapperInv, Types
  <2>13. /\ th.pc # "idle" => th.uuid \in Uuids /\ dir[th.uuid] # "Missing"
         /\ th.pc \in Deleting => \A n \in Names : mapping[n] # th.uuid
    BY <1>1, <1>2, <2>3 DEF Deleting
  <2> HIDE DEF g, wait
  <2> QED
    BY <1>1, <1>2, <1>3, <2>3, <2>4, <2>8, <2>9, <2>10, <2>11, <2>12, <2>13, UnnamedStep
<1>7. CASE Status(u) = "Missing"
  <2>1. /\ deleter' = [deleter EXCEPT ![u] = "remove"]
        /\ thread' = [thread EXCEPT ![Scheduler] = Idle] /\ UNCHANGED <<map, envs>>
    BY <1>7 DEF StartDeletion, u
  <2>2. /\ deleter' \in [Uuids -> {"none", "wait", "remove", "end", "done", "panicked"}]
        /\ \A v \in Uuids \ {u} : deleter'[v] = deleter[v]
    BY <2>1 DEF MapperInv, Types
  <2>3. Cache' /\ \A v \in Uuids : Untouched(map, envs, map', envs', v)
    BY <2>1 DEF MapperInv, Cache, Untouched
  <2>4. Evolves(map, envs, map', envs', u)
    BY <2>1 DEF Evolves
  <2>5. Waited(Idle, map', envs') /\ Idle.pc \notin Deleting
    BY <1>1 DEF Waited, Deleting
  <2>6. map' \in MapType /\ envs' \in EnvType /\ map'.generation = map.generation
    BY <1>1, <2>1
  <2> QED
    BY <1>1, <1>2, <1>3, <2>1, <2>2, <2>3, <2>4, <2>5, <2>6, UnnamedStep
<1> QED
  BY <1>5, <1>6, <1>7 DEF StartDeletion, u

\* ReopenableIndex::close
LEMMA CloseForDeletionInv ==
  ASSUME MapperInv, CloseForDeletion
  PROVE  MapperInv'
<1> DEFINE u == thread[Scheduler].uuid
           th == [thread[Scheduler] EXCEPT !.pc = "start_deletion"]
<1>1. /\ u \in Uuids /\ dir[u] # "Missing" /\ map \in MapType /\ envs \in EnvType
      /\ map.generation \in Nat /\ thread[Scheduler] \in Positions /\ Scheduler \in Threads
      /\ thread[Scheduler].pc = "close"
  BY TypeFacts DEF CloseForDeletion
<1>2. \A n \in Names : mapping[n] # u
  BY DEF MapperInv, Named, CloseForDeletion, Deleting
<1>3. th \in Positions /\ th.pc = "start_deletion" /\ th.uuid = u
  BY <1>1 DEF Positions, Places
<1>4. /\ map' = IF SameClosing(Scheduler) THEN Removed(u) ELSE map
      /\ thread' = [thread EXCEPT ![Scheduler] = th]
      /\ UNCHANGED <<mapping, dir, envs, holders, deleter, faults>>
  BY DEF CloseForDeletion, Goto
<1>5. /\ faults' \in Nat /\ dir' \in [Uuids -> {"Missing", "Present", "Removed"}]
      /\ deleter' \in [Uuids -> {"none", "wait", "remove", "end", "done", "panicked"}]
  BY <1>4 DEF MapperInv, Types
<1>6. SameClosing(Scheduler) => u \notin Members(map.available)
  BY <1>1, SameClosingClosed
<1> HIDE DEF th, u
<1>7. Waited(th, map', envs')
  BY <1>3 DEF Waited
<1>8. CASE SameClosing(Scheduler)
  <2> DEFINE m == Removed(u)
  <2>1. m = Removed(u) /\ map' = m
    BY <1>4, <1>8
  <2> HIDE DEF m
  <2>2. /\ m \in MapType /\ m.available = map.available /\ m.generation = map.generation
        /\ m.unavailable[u] = Missing
    BY <1>1, <1>6, <1>8, <2>1, RemovedAgrees
  <2>3. \A v \in Uuids \ {u} : m.unavailable[v] = map.unavailable[v]
    BY <1>1, <1>6, <1>8, <2>1, RemovedAgrees
  <2>4. \A v \in Uuids : Agrees(m, envs, v)
    BY <1>1, <1>6, <1>8, <2>1, RemovedAgrees
  <2>5. Cache' /\ map' \in MapType /\ envs' \in EnvType /\ map'.generation = map.generation
    BY <1>1, <1>4, <2>1, <2>2, <2>4 DEF MapperInv, Cache
  <2>6. \A v \in Uuids \ {u} : Untouched(map, envs, map', envs', v)
    BY <1>4, <2>1, <2>2, <2>3 DEF Untouched
  <2>7. Evolves(map, envs, map', envs', u)
    BY <1>4, <2>1, <2>2 DEF Evolves, Missing, Entry
  <2> QED
    BY <1>1, <1>2, <1>3, <1>4, <1>5, <1>7, <2>5, <2>6, <2>7, UnnamedStep
<1>9. CASE ~SameClosing(Scheduler)
  <2>1. Cache' /\ map' \in MapType /\ envs' \in EnvType /\ map'.generation = map.generation
    BY <1>1, <1>4, <1>9 DEF MapperInv, Cache
  <2>2. \A v \in Uuids : Untouched(map, envs, map', envs', v) /\ Evolves(map, envs, map', envs', v)
    BY <1>4, <1>9 DEF Untouched, Evolves
  <2> QED
    BY <1>1, <1>2, <1>3, <1>4, <1>5, <1>7, <2>1, <2>2, UnnamedStep
<1> QED
  BY <1>8, <1>9

\* The thread "index_deleter": an index that is being deleted has no name any more.
LEMMA DeletionInv ==
  ASSUME MapperInv, NEW u \in Uuids, Deletion(u)
  PROVE  MapperInv'
<1> DEFINE th == thread[Scheduler]
<1>1. /\ map \in MapType /\ envs \in EnvType /\ map.generation \in Nat
      /\ th \in Positions /\ Scheduler \in Threads
      /\ th.pc # "idle" => th.uuid \in Uuids /\ dir[th.uuid] # "Missing"
  BY TypeFacts
<1>2. deleter[u] # "none"
  BY DEF Deletion, DeleterWaits, RemoveDir, EndDeletion
<1>3. dir[u] # "Missing" /\ \A n \in Names : mapping[n] # u
  BY <1>2, MapperAssumption DEF MapperInv, Fresh, Named
<1>4. Waited(th, map, envs) /\ (th.pc \in Deleting => \A n \in Names : mapping[n] # th.uuid)
  BY <1>1 DEF MapperInv, Waiting, Named
<1>5. /\ UNCHANGED <<mapping, envs, holders>> /\ thread' = [thread EXCEPT ![Scheduler] = th]
  BY <1>1 DEF Deletion, DeleterWaits, RemoveDir, EndDeletion, MapperInv, Types
<1>6. /\ dir' \in [Uuids -> {"Missing", "Present", "Removed"}] /\ dir'[u] # "Missing"
      /\ \A v \in Uuids \ {u} : dir'[v] = dir[v]
  BY <1>3 DEF Deletion, DeleterWaits, RemoveDir, EndDeletion, MapperInv, Types
<1>7. faults' \in Nat /\ (faults' = 0 => faults = 0)
  BY DEF Deletion, DeleterWaits, RemoveDir, EndDeletion, MapperInv, Types
<1>8. /\ deleter' \in [Uuids -> {"none", "wait", "remove", "end", "done", "panicked"}]
      /\ \A v \in Uuids \ {u} : deleter'[v] = deleter[v]
  BY DEF Deletion, DeleterWaits, RemoveDir, EndDeletion, MapperInv, Types
<1>9. map' = map \/ (u \notin Members(map.available) /\ map' = Removed(u))
  BY AvailableMember DEF Deletion, DeleterWaits, RemoveDir, EndDeletion
<1> HIDE DEF th
<1>10. /\ Cache' /\ map' \in MapType /\ envs' \in EnvType /\ map'.generation = map.generation
       /\ \A v \in Uuids \ {u} : Untouched(map, envs, map', envs', v)
       /\ Evolves(map, envs, map', envs', u)
  <2>1. CASE map' = map
    BY <1>1, <1>5, <2>1 DEF MapperInv, Cache, Untouched, Evolves
  <2>2. CASE u \notin Members(map.available) /\ map' = Removed(u)
    <3> DEFINE m == Removed(u)
    <3>1. m = Removed(u) /\ map' = m
      BY <2>2
    <3> HIDE DEF m
    <3>2. /\ m \in MapType /\ m.available = map.available /\ m.generation = map.generation
          /\ m.unavailable[u] = Missing
      BY <2>2, <3>1, RemovedAgrees
    <3>3. \A v \in Uuids \ {u} : m.unavailable[v] = map.unavailable[v]
      BY <2>2, <3>1, RemovedAgrees
    <3>4. \A v \in Uuids : Agrees(m, envs, v)
      BY <2>2, <3>1, RemovedAgrees
    <3>5. Missing.status # "Closing"
      BY DEF Missing, Entry
    <3> QED
      BY <1>1, <1>5, <3>1, <3>2, <3>3, <3>4, <3>5 DEF MapperInv, Cache, Untouched, Evolves
  <2> QED
    BY <1>9, <2>1, <2>2
<1>11. \A v \in Uuids : Evolves(map, envs, map', envs', v)
  BY <1>10 DEF Untouched, Evolves
<1>12. Waited(th, map', envs')
  BY <1>1, <1>4, <1>10, <1>11, WaitedKept
<1> QED
  BY <1>1, <1>3, <1>4, <1>5, <1>6, <1>7, <1>8, <1>10, <1>12, UnnamedStep

-----------------------------------------------------------------------------
(* The theorems.                                                            *)

\* The first state.
LEMMA InitInv == Init => MapperInv
<1> SUFFICES ASSUME Init PROVE MapperInv
  OBVIOUS
<1>1. Missing \in Entries /\ Missing.status = "Missing" /\ EmptyMap \in MapType
      /\ EmptyMap.available = <<>> /\ \A u \in Uuids : EmptyMap.unavailable[u] = Missing
  BY MapperAssumption DEF Missing, Entry, Entries, Statuses, Generations, EmptyMap, MapType
<1>2. Environment("closed", 0, 0) \in [state : States, generation : Generations, size : Nat]
      /\ Environment("closed", 0, 0).state = "closed"
  BY MapperAssumption DEF Environment, States, Generations
<1>3. Idle \in Positions /\ Idle.pc = "idle"
  BY MapperAssumption DEF Idle, At, Positions, Places, Generations
<1>4. Types
  BY <1>1, <1>2, <1>3 DEF Init, Types, EnvType
<1>5. Lru(<<>>) /\ Members(<<>>) = {}
  BY MapperAssumption DEF Lru, Distinct, Members
<1>6. Cache /\ Fresh
  BY <1>1, <1>2, <1>5 DEF Init, Cache, Agrees, Fresh, Unused
<1>7. Scheduler \in Threads /\ \A t \in Threads : thread[t].pc = "idle"
  BY <1>3 DEF Init, Threads
<1>8. Named /\ Working /\ Waiting /\ Reached
  BY <1>7 DEF Init, Named, Deleting, Working, Waiting, Waited, Reached
<1> QED
  BY <1>4, <1>6, <1>8 DEF MapperInv

\* Every step keeps the invariant.
LEMMA NextInv ==
  ASSUME MapperInv, [Next]_vars
  PROVE  MapperInv'
<1>1. ASSUME NEW t \in Threads, NEW n \in Names, Resolve(t, n) PROVE MapperInv'
  BY <1>1, ResolveInv
<1>2. ASSUME NEW t \in Threads, Lookup(t) PROVE MapperInv'
  BY <1>2, GetInv, OpenInv, WaitEndsInv, WaitTimesOutInv, ReopenInv, PoisonedLockInv, ReleaseInv
     DEF Lookup
<1>3. ASSUME NEW n \in Names,
             CreateIndex(n) \/ CreateIndexFails(n) \/ ResizeIndex(n) \/ DeleteIndex(n)
      PROVE  MapperInv'
  BY <1>3, CreateIndexInv, CreateIndexFailsInv, ResizeIndexInv, DeleteIndexInv
<1>4. ASSUME NEW m \in Names, NEW n \in Names, SwapIndexes(m, n) PROVE MapperInv'
  BY <1>4, SwapIndexesInv
<1>5. CASE StartDeletion \/ CloseForDeletion
  BY <1>5, StartDeletionInv, CloseForDeletionInv
<1>6. ASSUME NEW u \in Uuids, Deletion(u) PROVE MapperInv'
  BY <1>6, DeletionInv
<1>7. CASE UNCHANGED vars
  <2>1. UNCHANGED <<mapping, dir, map, envs, holders, thread, deleter, faults>>
    BY <1>7 DEF vars
  <2>2. Types' /\ Cache' /\ Fresh' /\ Named' /\ Reached'
    BY <2>1 DEF MapperInv, Types, Cache, Fresh, Named, Reached, Reachable
  <2>3. Working' /\ Waiting'
    BY <2>1 DEF MapperInv, Working, Waiting
  <2> QED
    BY <2>2, <2>3 DEF MapperInv
<1> QED
  BY <1>1, <1>2, <1>3, <1>4, <1>5, <1>6, <1>7 DEF Next

\* The inductive invariant holds of every behaviour.
THEOREM MapperInvariant == Spec => []MapperInv
  BY InitInv, NextInv, PTL DEF Spec

\* Every variable of the index mapper has its type.
THEOREM MapperTyped == Spec => []TypeOK
<1>1. MapperInv => TypeOK
  <2> SUFFICES ASSUME MapperInv PROVE TypeOK
    OBVIOUS
  <2>1. map.available \in Seq(Uuids) /\ map.generation \in 0 .. MaxGenerations
    BY DEF MapperInv, Types, MapType, Generations
  <2>2. ASSUME NEW u \in Uuids
        PROVE  /\ map.unavailable[u].status \in {"Missing", "BeingDeleted", "Closing"}
               /\ map.unavailable[u].generation \in 0 .. MaxGenerations
               /\ envs[u].state \in {"closed", "open", "closing"}
    BY DEF MapperInv, Types, MapType, EnvType, Entries, Statuses, States, Generations
  <2>3. ASSUME NEW t \in Threads PROVE thread[t].pc \in Places
    BY DEF MapperInv, Types, Positions
  <2> QED
    BY <2>1, <2>2, <2>3 DEF MapperInv, Types, TypeOK, Places
<1> QED
  BY <1>1, MapperInvariant, PTL

\* For any number of indexes, readers and closings, and any capacity of the cache: the map
\* tells the truth about the environments that are open, an index with a name can be opened
\* whenever the map says that it is missing, and its directory is on disk.
THEOREM MapperSound == Spec => []MapSound
<1>1. MapperInv => MapSound
  <2> SUFFICES ASSUME MapperInv PROVE MapSound
    OBVIOUS
  <2>1. MapConsistent
    BY AvailableMember DEF MapperInv, Cache, Lru, Distinct, Agrees, MapConsistent
  <2>2. MissingMeansClosed
    <3> SUFFICES ASSUME NEW n \in Names, mapping[n] # None, Status(mapping[n]) = "Missing"
                 PROVE  envs[mapping[n]].state = "closed"
      BY DEF MissingMeansClosed
    <3>1. mapping[n] \in Uuids /\ Reachable(map, envs, mapping[n])
      BY DEF MapperInv, Types, Reached
    <3> QED
      BY <3>1, AvailableMember DEF Status, Reachable
  <2>3. NamedIndexKept
    BY DEF MapperInv, Named, NamedIndexKept
  <2> QED
    BY <2>1, <2>2, <2>3 DEF MapSound
<1> QED
  BY <1>1, MapperInvariant, PTL

\* Only index() and create_index open an environment.
LEMMA OthersOpenNothing ==
  ASSUME MapperInv, Next, NEW u \in Uuids, envs[u].state # "open", envs'[u].state = "open"
  PROVE  \/ \E t \in Threads : Open(t) \/ Reopen(t)
         \/ \E n \in Names : CreateIndex(n) \/ CreateIndexFails(n)
<1>1. envs \in EnvType /\ map \in MapType
  BY TypeFacts
<1>2. envs' # envs
  OBVIOUS
<1>3. ASSUME NEW t \in Threads, Release(t) PROVE FALSE
  <2>1. thread[t].uuid \in Uuids
    BY <1>3, TypeFacts DEF Release
  <2> QED
    BY <1>1, <1>3, <2>1 DEF Release, EnvType, Environment
<1>4. ASSUME NEW n \in Names, ResizeIndex(n) PROVE FALSE
  <2> DEFINE v == mapping[n]
             env == Environment(IF holders[v] = {} THEN "closed" ELSE "closing",
                                map.generation + 1, envs[v].size)
             m == [map EXCEPT !.available = Without(@, v)]
  <2>1. v \in Uuids /\ m.generation = map.generation
    BY <1>1, <1>4 DEF ResizeIndex, MapperInv, Types, MapType
  <2>2. envs' = [envs EXCEPT ![v] = env]
    BY <1>4, <2>1 DEF ResizeIndex, Close, Shut
  <2> QED
    BY <1>1, <2>1, <2>2 DEF EnvType, Environment
<1>5. CASE StartDeletion
  <2> DEFINE v == thread[Scheduler].uuid
             env == Environment(IF holders[v] = {} THEN "closed" ELSE "closing", 0, envs[v].size)
  <2>1. v \in Uuids
    BY <1>5, TypeFacts DEF StartDeletion
  <2>2. envs' = [envs EXCEPT ![v] = env]
    BY <1>2, <1>5 DEF StartDeletion, Shut
  <2> QED
    BY <1>1, <2>1, <2>2 DEF EnvType, Environment
<1>6. ASSUME NEW t \in Threads, Lookup(t) PROVE Open(t) \/ Reopen(t)
  BY <1>2, <1>3, <1>6 DEF Lookup, Get, WaitEnds, WaitTimesOut, PoisonedLock
<1>7. /\ \A t \in Threads, n \in Names : ~Resolve(t, n)
      /\ \A n \in Names : ~DeleteIndex(n)
      /\ \A m, n \in Names : ~SwapIndexes(m, n)
      /\ ~CloseForDeletion /\ \A v \in Uuids : ~Deletion(v)
  BY <1>2 DEF Resolve, DeleteIndex, SwapIndexes, CloseForDeletion, Deletion, DeleterWaits, RemoveDir,
              EndDeletion
<1> QED
  BY <1>4, <1>5, <1>6, <1>7 DEF Next

\* As long as no opening fails, an index with a name is reopened at least as large as it was,
\* and with the size that the map kept for it: a resize is never lost, whichever threads waited
\* for whichever closings of the index.
THEOREM MapperSizeKept == Spec => SizeKept
<1> DEFINE Kept(u) == /\ envs'[u].size >= envs[u].size
                      /\ map.unavailable[u].status = "Closing" =>
                           envs'[u].size = map.unavailable[u].size
           Step == faults' = 0 => \A u \in {mapping[n] : n \in Names} \ {None} :
                     (envs[u].state # "open" /\ envs'[u].state = "open") => Kept(u)
<1>1. ASSUME MapperInv, Next PROVE Step
  <2> SUFFICES ASSUME faults' = 0, NEW k \in Names, NEW u, u = mapping[k], u # None,
                      envs[u].state # "open", envs'[u].state = "open"
               PROVE  Kept(u)
    OBVIOUS
  <2>1. u \in Uuids /\ dir[u] = "Present" /\ Reachable(map, envs, u) /\ Agrees(map, envs, u)
    BY <1>1 DEF MapperInv, Types, Named, Reached, Cache
  <2>2. envs \in EnvType /\ map \in MapType /\ \A v \in Uuids : Agrees(map, envs, v)
    BY <1>1, TypeFacts DEF MapperInv, Cache
  <2>3. faults \in Nat
    BY <1>1 DEF MapperInv, Types
  <2>4. ASSUME NEW t \in Threads, Open(t) PROVE FALSE
    <3> DEFINE v == thread[t].uuid
               next == At("using", v, 0, 0)
               s == Insert([map |-> map, envs |-> envs], v, 0)
    <3>1. v \in Uuids
      BY <1>1, <2>4, TypeFacts DEF Open
    <3>2. Status(v) = "Missing" /\ Create(t, map, v, 0, next)
      BY <2>4 DEF Open
    <3>3. /\ s.map.generation <= MaxGenerations /\ map' = s.map /\ envs' = s.envs
          /\ UNCHANGED faults
      BY <3>2 DEF Create
    <3>4. v \notin Members(map.available) /\ map.unavailable[v].status = "Missing"
      BY <3>1, <3>2, AvailableMember DEF Status
    <3>5. v # u
      BY <2>1, <3>3, <3>4 DEF Reachable
    <3>6. s = Insert([map |-> map, envs |-> envs], v, 0) /\ map.unavailable[v] = Missing
      BY <2>2, <3>1, <3>4 DEF Agrees
    <3> HIDE DEF s, v
    <3>7. \A w \in Uuids \ {v} : envs[w].state # "open" => envs'[w].state # "open"
      BY <1>1, <2>2, <3>1, <3>3, <3>4, <3>6, InsertFacts
    <3> QED
      BY <2>1, <3>5, <3>7
  <2>5. ASSUME NEW t \in Threads, Reopen(t) PROVE Kept(u)
    <3> DEFINE v == thread[t].uuid
               next == At("get", v, 0, 0)
               m == Removed(v)
               size == thread[t].size
               s == Insert([map |-> m, envs |-> envs], v, size)
    <3>1. v \in Uuids /\ size \in Nat
      BY <1>1, <2>5, TypeFacts DEF Reopen, Positions
    <3>2. SameClosing(t) /\ Create(t, m, v, size, next)
      BY <2>5 DEF Reopen
    <3>3. /\ s.map.generation <= MaxGenerations /\ map' = s.map /\ envs' = s.envs
          /\ UNCHANGED faults
      BY <3>2 DEF Create
    <3>4. /\ v \notin Members(map.available) /\ map.unavailable[v].status = "Closing"
          /\ size = map.unavailable[v].size
      BY <1>1, <2>5, <3>2, SameClosingClosed DEF Reopen
    <3>5. s = Insert([map |-> m, envs |-> envs], v, size) /\ m = Removed(v)
      OBVIOUS
    <3> HIDE DEF s, v, m, size
    <3>6. /\ m \in MapType /\ m.available = map.available /\ m.generation = map.generation
          /\ m.unavailable[v] = Missing
      BY <1>1, <3>1, <3>4, <3>5, RemovedAgrees
    <3>7. \A w \in Uuids \ {v} : m.unavailable[w] = map.unavailable[w]
      BY <1>1, <3>1, <3>4, <3>5, RemovedAgrees
    <3>8. \A w \in Uuids : Agrees(m, envs, w)
      BY <1>1, <3>1, <3>4, <3>5, RemovedAgrees
    <3>9. \A w \in Uuids \ {v} : envs[w].state # "open" => envs'[w].state # "open"
      BY <1>1, <3>1, <3>3, <3>4, <3>5, <3>6, <3>7, <3>8, InsertFacts
    <3>10. envs'[v].size = size
      BY <1>1, <3>1, <3>3, <3>4, <3>5, <3>6, <3>7, <3>8, InsertFacts
    <3>11. v = u
      BY <2>1, <3>9
    <3> QED
      BY <2>1, <3>4, <3>10, <3>11 DEF Agrees
  <2>6. ASSUME NEW n \in Names, CreateIndex(n) PROVE FALSE
    <3>1. PICK v \in Uuids :
            /\ dir[v] = "Missing"
            /\ LET s == Insert(Here, v, 0) IN
               s.map.generation <= MaxGenerations /\ map' = s.map /\ envs' = s.envs
      BY <2>6 DEF CreateIndex, NewUuid
    <3> DEFINE s == Insert([map |-> map, envs |-> envs], v, 0)
    <3>2. s.map.generation <= MaxGenerations /\ map' = s.map /\ envs' = s.envs /\ UNCHANGED faults
      BY <2>6, <3>1 DEF Here, CreateIndex
    <3>3. v \notin Members(map.available) /\ map.unavailable[v] = Missing
      BY <1>1, <3>1 DEF MapperInv, Fresh, Unused
    <3>4. s = Insert([map |-> map, envs |-> envs], v, 0)
      OBVIOUS
    <3> HIDE DEF s
    <3>5. \A w \in Uuids \ {v} : envs[w].state # "open" => envs'[w].state # "open"
      BY <1>1, <2>2, <3>2, <3>3, <3>4, InsertFacts
    <3> QED
      BY <2>1, <3>1, <3>5
  <2>7. ASSUME NEW n \in Names, CreateIndexFails(n) PROVE FALSE
    BY <2>3, <2>7 DEF CreateIndexFails
  <2> HIDE DEF Kept
  <2> QED
    BY <1>1, <2>1, <2>4, <2>5, <2>6, <2>7, OthersOpenNothing
<1>2. ASSUME MapperInv, [Next]_vars PROVE [Step]_vars
  BY <1>1, <1>2
<1> QED
  BY <1>2, MapperInvariant, PTL DEF Spec, SizeKept
=============================================================================
