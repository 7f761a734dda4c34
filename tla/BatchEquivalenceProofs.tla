----------------------- MODULE BatchEquivalenceProofs -----------------------
(* A batch of any length gives its tasks and the index the fate they would   *)
(* have one by one.                                                          *)
EXTENDS BatchEquivalence, TaskDatabaseProofs

\* What every state of the queue satisfies.
QueueTyped ==
  /\ queue \in Seq(TaskKinds)
  /\ Len(queue) <= MaxTasks
  /\ index \in StartIndexes

-----------------------------------------------------------------------------
(* Induction and recursion up to a bound.                                   *)

\* A set with 0 that is closed under successors below n holds 0 .. n.
LEMMA UpTo ==
  ASSUME NEW n \in Nat, NEW S, 0 \in S, \A k \in 0 .. n - 1 : k \in S => k + 1 \in S
  PROVE  \A k \in 0 .. n : k \in S
<1> DEFINE out == {k \in 0 .. n : k \notin S}
<1>1. SUFFICES ASSUME out # {} PROVE FALSE
  OBVIOUS
<1>2. PICK k \in out : \A j \in out : k <= j
  <2>1. out \subseteq Nat
    OBVIOUS
  <2> HIDE DEF out
  <2> QED
    BY <1>1, <2>1, LowestExists
<1>3. k \in 1 .. n
  BY <1>2
<1>4. k - 1 \in 0 .. n - 1 /\ k - 1 \in S
  BY <1>2, <1>3
<1> QED
  BY <1>2, <1>3, <1>4

\* The task before t.
LEMMA Previous ==
  ASSUME NEW m \in Nat, NEW t \in 1 .. m
  PROVE  Highest({u \in 0 .. m : u < t}) = t - 1
<1> DEFINE S == {u \in 0 .. m : u < t}
<1>1. t - 1 \in S /\ \A u \in S : u <= t - 1
  OBVIOUS
<1>2. \A x \in S : (\A u \in S : u <= x) => x = t - 1
  BY <1>1
<1>3. Highest(S) \in S /\ \A u \in S : u <= Highest(S)
  <2> HIDE DEF S
  <2> QED
    BY <1>1 DEF Highest
<1> QED
  BY <1>2, <1>3

\* The lowest task of a prefix of the queue is its first.
LEMMA ZeroLowest ==
  ASSUME NEW m \in Nat
  PROVE  Lowest(0 .. m) = 0
<1>1. \A x \in 0 .. m : (\A u \in 0 .. m : x <= u) => x = 0
  OBVIOUS
<1>2. Lowest(0 .. m) \in 0 .. m /\ \A u \in 0 .. m : Lowest(0 .. m) <= u
  <2>1. 0 \in 0 .. m /\ \A u \in 0 .. m : 0 <= u
    OBVIOUS
  <2> QED
    BY <2>1 DEF Lowest
<1> QED
  BY <1>1, <1>2

\* The highest task of a prefix of the queue is its last.
LEMMA LastHighest ==
  ASSUME NEW m \in Nat
  PROVE  Highest(0 .. m) = m
<1>1. \A x \in 0 .. m : (\A u \in 0 .. m : u <= x) => x = m
  OBVIOUS
<1>2. Highest(0 .. m) \in 0 .. m /\ \A u \in 0 .. m : u <= Highest(0 .. m)
  <2>1. m \in 0 .. m /\ \A u \in 0 .. m : u <= m
    OBVIOUS
  <2> QED
    BY <2>1 DEF Highest
<1> QED
  BY <1>1, <1>2

\* The verdicts satisfy the equation that defines them.
LEMMA VerdictsRecursion ==
  ASSUME NEW m \in Nat, NEW kinds, NEW exists, NEW primary_key
  PROVE  LET verdict == Verdicts(0 .. m, kinds, exists, primary_key)
             index_exist == exists \/ MustCreateIndex(kinds[0])
         IN /\ verdict[0] = BatchKindNew(kinds[0], primary_key)
            /\ \A t \in 1 .. m :
                 verdict[t] = IF verdict[t - 1].flow # "Continue" THEN Stop(verdict[t - 1].batch)
                              ELSE Accumulate(verdict[t - 1].batch, AutobatchKind(kinds[t]),
                                              index_exist, primary_key)
<1> DEFINE first == Lowest(0 .. m)
           Step(before, t) == IF before.flow # "Continue" THEN Stop(before.batch)
                              ELSE Accumulate(before.batch, AutobatchKind(kinds[t]),
                                              exists \/ MustCreateIndex(kinds[first]),
                                              primary_key)
           start == BatchKindNew(kinds[first], primary_key)
           Given == {n \in 0 .. m : \E g : g = [t \in 0 .. n |->
                       IF t = 0 THEN start ELSE Step(g[t - 1], t)]}
           verdict == Verdicts(0 .. m, kinds, exists, primary_key)
<1>0. first = 0
  BY ZeroLowest
<1>1. verdict = CHOOSE g : g = [t \in 0 .. m |->
                  IF t = first THEN start ELSE Step(g[Highest({u \in 0 .. m : u < t})], t)]
  BY Zenon DEF Verdicts
<1> HIDE DEF first, Step, start, verdict
<1>2. m \in Given
  <2>1. 0 \in Given
    <3> DEFINE g == [t \in 0 .. 0 |-> start]
    <3>1. \A t \in 0 .. 0 : g[t] = IF t = 0 THEN start ELSE Step(g[t - 1], t)
      OBVIOUS
    <3>2. g = [t \in 0 .. 0 |-> IF t = 0 THEN start ELSE Step(g[t - 1], t)]
      BY <3>1
    <3> HIDE DEF g
    <3> QED
      BY <3>2
  <2>2. ASSUME NEW n \in 0 .. m - 1, n \in Given PROVE n + 1 \in Given
    <3>1. PICK g : g = [t \in 0 .. n |-> IF t = 0 THEN start ELSE Step(g[t - 1], t)]
      BY <2>2
    <3> DEFINE h == [t \in 0 .. n + 1 |-> IF t = n + 1 THEN Step(g[n], n + 1) ELSE g[t]]
    <3>2. \A t \in 0 .. n + 1 : h[t] = IF t = 0 THEN start ELSE Step(h[t - 1], t)
      <4> TAKE t \in 0 .. n + 1
      <4>1. CASE t = n + 1
        <5>1. h[t] = Step(g[n], n + 1) /\ h[n] = g[n] /\ t - 1 = n /\ t # 0
          BY <4>1
        <5> QED
          BY <4>1, <5>1
      <4>2. CASE t \in 1 .. n
        <5>1. h[t] = g[t] /\ h[t - 1] = g[t - 1] /\ t # 0
          BY <4>2
        <5>2. g[t] = Step(g[t - 1], t)
          BY <3>1, <4>2
        <5> QED
          BY <5>1, <5>2
      <4>3. CASE t = 0
        BY <3>1, <4>3
      <4> QED
        BY <4>1, <4>2, <4>3
    <3>3. h = [t \in 0 .. n + 1 |-> IF t = 0 THEN start ELSE Step(h[t - 1], t)]
      BY <3>2
    <3>4. n + 1 \in 0 .. m
      OBVIOUS
    <3> HIDE DEF h
    <3> QED
      BY <3>3, <3>4
  <2> HIDE DEF Given
  <2>3. \A k \in 0 .. m : k \in Given
    BY <2>1, <2>2, UpTo
  <2> QED
    BY <2>3
<1>3. PICK g : g = [t \in 0 .. m |-> IF t = 0 THEN start ELSE Step(g[t - 1], t)]
  BY <1>2
<1>4. g = [t \in 0 .. m |->
            IF t = first THEN start ELSE Step(g[Highest({u \in 0 .. m : u < t})], t)]
  <2> DEFINE Body(t) ==
        IF t = first THEN start ELSE Step(g[Highest({u \in 0 .. m : u < t})], t)
  <2>1. \A t \in 0 .. m : g[t] = Body(t)
    <3> TAKE t \in 0 .. m
    <3>1. CASE t = 0
      BY <1>0, <1>3, <3>1
    <3>2. CASE t \in 1 .. m
      <4>1. Highest({u \in 0 .. m : u < t}) = t - 1
        BY <3>2, Previous
      <4>2. g[t] = Step(g[t - 1], t)
        BY <1>3, <3>2
      <4> QED
        BY <1>0, <3>2, <4>1, <4>2
    <3> QED
      BY <3>1, <3>2
  <2>2. g = [t \in 0 .. m |-> g[t]]
    BY <1>3
  <2> SUFFICES g = [t \in 0 .. m |-> Body(t)]
    OBVIOUS
  <2> HIDE DEF Body
  <2>3. [t \in 0 .. m |-> g[t]] = [t \in 0 .. m |-> Body(t)]
    BY <2>1
  <2> QED
    BY <2>2, <2>3
<1>5. verdict = [t \in 0 .. m |->
            IF t = first THEN start ELSE Step(verdict[Highest({u \in 0 .. m : u < t})], t)]
  BY <1>1, <1>4
<1>6. \A t \in 1 .. m : verdict[t] = Step(verdict[t - 1], t)
  <2> TAKE t \in 1 .. m
  <2>1. Highest({u \in 0 .. m : u < t}) = t - 1
    BY Previous
  <2>2. t \in 0 .. m /\ t # first
    BY <1>0
  <2>3. verdict[t] = Step(verdict[Highest({u \in 0 .. m : u < t})], t)
    BY <1>5, <2>2, Zenon
  <2> QED
    BY <2>1, <2>3
<1>7. verdict[0] = start
  BY <1>0, <1>5
<1> QED
  BY <1>0, <1>6, <1>7 DEF Step, start, verdict

\* OneByOne satisfies the equation that defines it.
LEMMA OneByOneRecursion ==
  ASSUME NEW last \in Nat, Highest(Batch.ids) = last
  PROVE  /\ OneByOne[0] = Done(index)
         /\ \A n \in 0 .. last :
              OneByOne[n + 1] = ProcessAlone(OneByOne[n].index, n, KindOf[n])
<1> DEFINE Step(before, n) == ProcessAlone(before.index, n - 1, KindOf[n - 1])
           start == Done(index)
           Given == {n \in 0 .. last + 1 : \E g : g = [k \in 0 .. n |->
                       IF k = 0 THEN start ELSE Step(g[k - 1], k)]}
           after == CHOOSE g : g = [n \in 0 .. Highest(Batch.ids) + 1 |->
                       IF n = 0 THEN start ELSE Step(g[n - 1], n)]
<1>1. OneByOne = after
  BY Zenon DEF OneByOne
<1> HIDE DEF Step, start
<1>2. last + 1 \in Given
  <2>1. 0 \in Given
    <3> DEFINE g == [k \in 0 .. 0 |-> start]
    <3>1. \A k \in 0 .. 0 : g[k] = IF k = 0 THEN start ELSE Step(g[k - 1], k)
      OBVIOUS
    <3>2. g = [k \in 0 .. 0 |-> IF k = 0 THEN start ELSE Step(g[k - 1], k)]
      BY <3>1
    <3> HIDE DEF g
    <3> QED
      BY <3>2
  <2>2. ASSUME NEW n \in 0 .. last + 1 - 1, n \in Given PROVE n + 1 \in Given
    <3>1. PICK g : g = [k \in 0 .. n |-> IF k = 0 THEN start ELSE Step(g[k - 1], k)]
      BY <2>2
    <3> DEFINE h == [k \in 0 .. n + 1 |-> IF k = n + 1 THEN Step(g[n], n + 1) ELSE g[k]]
    <3>2. \A k \in 0 .. n + 1 : h[k] = IF k = 0 THEN start ELSE Step(h[k - 1], k)
      <4> TAKE k \in 0 .. n + 1
      <4>1. CASE k = n + 1
        <5>1. h[k] = Step(g[n], n + 1) /\ h[n] = g[n] /\ k - 1 = n /\ k # 0
          BY <4>1
        <5> QED
          BY <4>1, <5>1
      <4>2. CASE k \in 1 .. n
        <5>1. h[k] = g[k] /\ h[k - 1] = g[k - 1] /\ k # 0
          BY <4>2
        <5>2. g[k] = Step(g[k - 1], k)
          BY <3>1, <4>2
        <5> QED
          BY <5>1, <5>2
      <4>3. CASE k = 0
        BY <3>1, <4>3
      <4> QED
        BY <4>1, <4>2, <4>3
    <3>3. h = [k \in 0 .. n + 1 |-> IF k = 0 THEN start ELSE Step(h[k - 1], k)]
      BY <3>2
    <3>4. n + 1 \in 0 .. last + 1
      OBVIOUS
    <3> HIDE DEF h
    <3> QED
      BY <3>3, <3>4
  <2>3. last + 1 \in Nat
    OBVIOUS
  <2> HIDE DEF Given
  <2>4. \A k \in 0 .. last + 1 : k \in Given
    BY <2>1, <2>2, <2>3, UpTo
  <2> QED
    BY <2>3, <2>4
<1>3. \E g : g = [n \in 0 .. Highest(Batch.ids) + 1 |-> IF n = 0 THEN start ELSE Step(g[n - 1], n)]
  BY <1>2
<1>4. after = [n \in 0 .. Highest(Batch.ids) + 1 |->
                IF n = 0 THEN start ELSE Step(after[n - 1], n)]
  BY <1>3, Zenon
<1> HIDE DEF after
<1>5. after[0] = start
  BY <1>4
<1>6. \A n \in 0 .. last : after[n + 1] = Step(after[n], n + 1)
  <2>0. \A k \in 0 .. Highest(Batch.ids) + 1 : k # 0 => after[k] = Step(after[k - 1], k)
    <3> TAKE k \in 0 .. Highest(Batch.ids) + 1
    <3> HAVE k # 0
    <3> QED
      BY <1>4, Zenon
  <2> TAKE n \in 0 .. last
  <2>1. n + 1 \in 0 .. Highest(Batch.ids) + 1 /\ n + 1 # 0 /\ n + 1 - 1 = n
    OBVIOUS
  <2>2. after[n + 1] = Step(after[n + 1 - 1], n + 1)
    BY <2>0, <2>1
  <2> QED
    BY <2>1, <2>2
<1>7. \A n \in 0 .. last : n + 1 - 1 = n
  OBVIOUS
<1> QED
  BY <1>1, <1>5, <1>6, <1>7 DEF Step, start

\* OperationsAfter is the last value of a function that satisfies its equation.
LEMMA OperationsRecursion ==
  ASSUME NEW last \in Nat, Highest(Batch.ids) = last, NEW s
  PROVE  \E after :
           /\ OperationsAfter(s) = after[last + 1]
           /\ after[0] = s.doc
           /\ \A n \in 0 .. last : after[n + 1] =
                IF KindOf[n].type \in {"DocumentAdditionOrUpdate", "DocumentDeletion"}
                THEN DocumentAfter(after[n], n, KindOf[n], Method) ELSE after[n]
<1> DEFINE Step(before, n) == IF KindOf[n - 1].type \in {"DocumentAdditionOrUpdate", "DocumentDeletion"}
                              THEN DocumentAfter(before, n - 1, KindOf[n - 1], Method) ELSE before
           start == s.doc
           Given == {n \in 0 .. last + 1 : \E g : g = [k \in 0 .. n |->
                       IF k = 0 THEN start ELSE Step(g[k - 1], k)]}
           after == CHOOSE g : g = [n \in 0 .. Highest(Batch.ids) + 1 |->
                       IF n = 0 THEN start ELSE Step(g[n - 1], n)]
<1>1. OperationsAfter(s) = after[Highest(Batch.ids) + 1]
  BY Zenon DEF OperationsAfter
<1> HIDE DEF Step, start
<1>2. last + 1 \in Given
  <2>1. 0 \in Given
    <3> DEFINE g == [k \in 0 .. 0 |-> start]
    <3>1. \A k \in 0 .. 0 : g[k] = IF k = 0 THEN start ELSE Step(g[k - 1], k)
      OBVIOUS
    <3>2. g = [k \in 0 .. 0 |-> IF k = 0 THEN start ELSE Step(g[k - 1], k)]
      BY <3>1
    <3> HIDE DEF g
    <3> QED
      BY <3>2
  <2>2. ASSUME NEW n \in 0 .. last + 1 - 1, n \in Given PROVE n + 1 \in Given
    <3>1. PICK g : g = [k \in 0 .. n |-> IF k = 0 THEN start ELSE Step(g[k - 1], k)]
      BY <2>2
    <3> DEFINE h == [k \in 0 .. n + 1 |-> IF k = n + 1 THEN Step(g[n], n + 1) ELSE g[k]]
    <3>2. \A k \in 0 .. n + 1 : h[k] = IF k = 0 THEN start ELSE Step(h[k - 1], k)
      <4> TAKE k \in 0 .. n + 1
      <4>1. CASE k = n + 1
        <5>1. h[k] = Step(g[n], n + 1) /\ h[n] = g[n] /\ k - 1 = n /\ k # 0
          BY <4>1
        <5> QED
          BY <4>1, <5>1
      <4>2. CASE k \in 1 .. n
        <5>1. h[k] = g[k] /\ h[k - 1] = g[k - 1] /\ k # 0
          BY <4>2
        <5>2. g[k] = Step(g[k - 1], k)
          BY <3>1, <4>2
        <5> QED
          BY <5>1, <5>2
      <4>3. CASE k = 0
        BY <3>1, <4>3
      <4> QED
        BY <4>1, <4>2, <4>3
    <3>3. h = [k \in 0 .. n + 1 |-> IF k = 0 THEN start ELSE Step(h[k - 1], k)]
      BY <3>2
    <3>4. n + 1 \in 0 .. last + 1
      OBVIOUS
    <3> HIDE DEF h
    <3> QED
      BY <3>3, <3>4
  <2>3. last + 1 \in Nat
    OBVIOUS
  <2> HIDE DEF Given
  <2>4. \A k \in 0 .. last + 1 : k \in Given
    BY <2>1, <2>2, <2>3, UpTo
  <2> QED
    BY <2>3, <2>4
<1>3. \E g : g = [n \in 0 .. Highest(Batch.ids) + 1 |-> IF n = 0 THEN start ELSE Step(g[n - 1], n)]
  BY <1>2
<1>4. after = [n \in 0 .. Highest(Batch.ids) + 1 |->
                IF n = 0 THEN start ELSE Step(after[n - 1], n)]
  BY <1>3, Zenon
<1> HIDE DEF after
<1>5. after[0] = start
  BY <1>4
<1>6. \A n \in 0 .. last : after[n + 1] = Step(after[n], n + 1)
  <2>0. \A k \in 0 .. Highest(Batch.ids) + 1 : k # 0 => after[k] = Step(after[k - 1], k)
    <3> TAKE k \in 0 .. Highest(Batch.ids) + 1
    <3> HAVE k # 0
    <3> QED
      BY <1>4, Zenon
  <2> TAKE n \in 0 .. last
  <2>1. n + 1 \in 0 .. Highest(Batch.ids) + 1 /\ n + 1 # 0 /\ n + 1 - 1 = n
    OBVIOUS
  <2>2. after[n + 1] = Step(after[n + 1 - 1], n + 1)
    BY <2>0, <2>1
  <2> QED
    BY <2>1, <2>2
<1>7. \A n \in 0 .. last : n + 1 - 1 = n
  OBVIOUS
<1> QED
  <2>1. \A n \in 0 .. last : after[n + 1] =
                IF KindOf[n].type \in {"DocumentAdditionOrUpdate", "DocumentDeletion"}
                THEN DocumentAfter(after[n], n, KindOf[n], Method) ELSE after[n]
    BY <1>6, <1>7 DEF Step
  <2> QED
    BY <1>1, <1>5, <2>1 DEF start

-----------------------------------------------------------------------------
(* The batch as a prefix of the queue.                                      *)

\* A set of tasks that has the first one and skips none is a prefix of the queue.
LEMMA Prefix ==
  ASSUME NEW S \in SUBSET TaskIds, 0 \in S,
         \A t \in S : \A u \in 0 .. t : u \in S
  PROVE  Highest(S) \in S /\ Highest(S) \in Nat /\ S = 0 .. Highest(S)
<1>1. Highest(S) \in S /\ \A u \in S : u <= Highest(S)
  BY HighestExists DEF Highest
<1>2. S \subseteq Nat
  BY DEF TaskIds
<1> DEFINE h == Highest(S)
<1> HIDE DEF h
<1>3. h \in S /\ h \in Nat /\ \A u \in S : u \in Nat /\ u <= h
  BY <1>1, <1>2 DEF h
<1>4. S \subseteq 0 .. h
  BY <1>3
<1>5. 0 .. h \subseteq S
  BY <1>3
<1> QED
  BY <1>3, <1>4, <1>5 DEF h

\* The uids and the kinds of the queue.
LEMMA QueueFacts ==
  ASSUME QueueTyped, queue # <<>>
  PROVE  /\ Len(queue) - 1 \in Nat
         /\ Uids \in SUBSET TaskIds /\ 0 \in Uids /\ Lowest(Uids) = 0
         /\ \A t \in Uids : \A u \in 0 .. t : u \in Uids
         /\ \A t \in Uids : KindOf[t] \in KindWithContent /\ KindOf[t].type \in IndexKinds
<1>1. queue \in Seq(TaskKinds) /\ Len(queue) <= MaxTasks /\ Len(queue) \in Nat \ {0}
  BY DEF QueueTyped
<1>2. Uids \in SUBSET TaskIds /\ 0 \in Uids /\ \A t \in Uids : \A u \in 0 .. t : u \in Uids
  BY <1>1, BoundsAssumption DEF Uids, TaskIds
<1>3. Lowest(Uids) = 0
  BY <1>1, ZeroLowest DEF Uids
<1>4. \A t \in Uids : KindOf[t] \in TaskKinds
  BY <1>1 DEF Uids, KindOf
<1> QED
  BY <1>1, <1>2, <1>3, <1>4, TaskKindsAssumption

\* The kinds that accumulate may be given, as autobatch sees them.
Joinable(kind) == kind \in KindWithContent /\ kind.type \in IndexKinds \ Alone

\* What the autobatcher keeps of each kind of task (AutobatchKind::from).
LEMMA AutobatchKindFacts ==
  ASSUME NEW kind, Joinable(kind)
  PROVE  LET k == AutobatchKind(kind) IN
         /\ kind.type = "DocumentAdditionOrUpdate" =>
              k = [type |-> "DocumentImport", method |-> kind.method,
                   create |-> {kind.create}, pk |-> {kind.pk}]
         /\ kind.type = "SettingsUpdate" =>
              k = [type |-> "Settings", method |-> "Replace",
                   create |-> {kind.create /\ ~kind.reset}, pk |-> {}]
         /\ kind.type \in {"DocumentDeletion", "DocumentClear", "IndexDeletion"} =>
              k = [type |-> kind.type, method |-> "Replace", create |-> {}, pk |-> {}]
         /\ kind.type \in {"DocumentAdditionOrUpdate", "SettingsUpdate", "DocumentDeletion",
                           "DocumentClear", "IndexDeletion"}
  BY DEF Joinable, AutobatchKind, IndexKinds, Alone

\* accumulate leaves a batch that it closes as it was.
LEMMA StopKeeps ==
  ASSUME NEW kind, Joinable(kind), NEW this, NEW exist, NEW primary_key,
         Accumulate(this, AutobatchKind(kind), exist, primary_key).flow = "Stop"
  PROVE  Accumulate(this, AutobatchKind(kind), exist, primary_key) = Stop(this)
<1> DEFINE k == AutobatchKind(kind)
           merged == Merge(this, k, exist)
           imported == MergeImport(this, k, exist)
<1>1. k.type \in {"DocumentImport", "Settings", "DocumentDeletion", "DocumentClear",
                  "IndexDeletion"}
  BY AutobatchKindFacts
<1> HIDE DEF k
<1>2. imported.flow = "Stop" => imported = Stop(this)
  BY DEF MergeImport, Continue, Stop
<1>3. k.type # "IndexDeletion" /\ merged.flow = "Stop" => merged = Stop(this)
  <2>1. CASE k.type = "DocumentImport"
    BY <1>2, <2>1 DEF Merge
  <2>2. CASE k.type = "DocumentClear"
    BY <2>2 DEF Merge, Continue
  <2>3. CASE k.type = "DocumentDeletion"
    BY <2>3 DEF Merge, Continue, Stop
  <2>4. CASE k.type = "Settings"
    BY <2>4 DEF Merge, Continue, Stop
  <2> QED
    BY <1>1, <2>1, <2>2, <2>3, <2>4
<1> HIDE DEF merged
<1> QED
  BY <1>3 DEF Accumulate, Absorb, Stop, merged, k

New == BatchKindNew(KindOf[0], index.pk)

\* The right to create the index or its existence: what the first task leaves to the others.
IndexExist == index.exists \/ MustCreateIndex(KindOf[0])

\* A batch that its first task does not close: the tasks up to last, each accumulated
\* onto the batch of the ones before it.
LEMMA BatchStructure ==
  ASSUME QueueTyped, queue # <<>>, New.flow = "Continue"
  PROVE  \E last \in Nat :
           /\ Batch.ids = 0 .. last /\ 0 .. last \subseteq Uids
           /\ Highest(Batch.ids) = last
           /\ Batch.type = Verdict[last].batch.type
           /\ Verdict[0] = New
           /\ \A t \in 1 .. last :
                /\ Joinable(KindOf[t])
                /\ Verdict[t - 1].flow = "Continue"
                /\ Verdict[t].flow # "Stop"
                /\ Verdict[t] = Accumulate(Verdict[t - 1].batch, AutobatchKind(KindOf[t]),
                                           IndexExist, index.pk)
<1> DEFINE T == Batchable(Uids, KindOf)
           m == Highest(T)
           ids == BatchIds(T, Verdict)
           last == Highest(ids)
<1>1. /\ Len(queue) - 1 \in Nat
      /\ Uids \in SUBSET TaskIds /\ 0 \in Uids /\ Lowest(Uids) = 0
      /\ \A t \in Uids : \A u \in 0 .. t : u \in Uids
      /\ \A t \in Uids : KindOf[t] \in KindWithContent /\ KindOf[t].type \in IndexKinds
  BY QueueFacts
<1>2. TaskIds \subseteq Nat
  BY DEF TaskIds
<1>3. T = {t \in Uids : \A u \in Uids : u <= t => u = 0 \/ KindOf[u].type \notin Alone}
  BY <1>1 DEF Batchable
<1>4. m \in T /\ m \in Nat /\ T = 0 .. m
  <2>1. T \in SUBSET TaskIds /\ 0 \in T
    <3>1. \A u \in Uids : u <= 0 => u = 0
      BY <1>1, <1>2
    <3> HIDE DEF T
    <3> QED
      BY <1>1, <1>3, <3>1
  <2>2. \A t \in T : \A u \in 0 .. t : u \in T
    <3> SUFFICES ASSUME NEW t \in T, NEW u \in 0 .. t PROVE u \in T
      OBVIOUS
    <3>1. t \in Uids /\ t \in Nat /\ u \in Uids /\ u \in Nat
      BY <1>1, <1>2, <1>3
    <3>2. \A w \in Uids : w <= u => w <= t
      BY <1>1, <1>2, <3>1
    <3> QED
      BY <1>3, <3>1, <3>2
  <2> QED
    BY <2>1, <2>2, Prefix
<1>5. \A t \in 1 .. m : Joinable(KindOf[t])
  BY <1>1, <1>3, <1>4 DEF Joinable
<1>6. /\ Verdict[0] = New
      /\ \A t \in 1 .. m :
           Verdict[t] = IF Verdict[t - 1].flow # "Continue" THEN Stop(Verdict[t - 1].batch)
                        ELSE Accumulate(Verdict[t - 1].batch, AutobatchKind(KindOf[t]),
                                        IndexExist, index.pk)
  BY <1>4, VerdictsRecursion DEF Verdict, New, IndexExist
<1>7. Lowest(T) = 0
  BY <1>4, ZeroLowest
<1>8. ids = {t \in 0 .. m : \/ t = 0
                            \/ /\ Verdict[t].flow # "Stop"
                               /\ \A u \in 0 .. m : u < t => Verdict[u].flow = "Continue"}
  BY <1>4, <1>7 DEF BatchIds
<1>9. Batch.ids = ids /\ Batch.type = Verdict[m].batch.type
  BY <1>1 DEF Batch, Autobatch, New, Verdict
<1> HIDE DEF T, m, ids
<1>10. last \in ids /\ last \in Nat /\ ids = 0 .. last
  <2>1. ids \in SUBSET TaskIds /\ 0 \in ids
    BY <1>1, <1>3, <1>4, <1>8
  <2>2. \A t \in ids : \A u \in 0 .. t : u \in ids
    <3> SUFFICES ASSUME NEW t \in ids, NEW u \in 0 .. t, u # t, u # 0 PROVE u \in ids
      BY <2>1
    <3>1. t \in Nat /\ u \in Nat /\ u < t /\ t <= m /\ t # 0
      BY <1>4, <1>8
    <3>2. \A w \in 0 .. m : w < t => Verdict[w].flow = "Continue"
      BY <1>8, <3>1
    <3>3. u \in 0 .. m
      BY <1>4, <3>1
    <3>4. Verdict[u].flow # "Stop"
      BY <3>1, <3>2, <3>3
    <3>5. \A w \in 0 .. m : w < u => Verdict[w].flow = "Continue"
      <4>1. \A w \in 0 .. m : w < u => w < t
        BY <1>4, <3>1
      <4> QED
        BY <3>2, <4>1
    <3> QED
      BY <1>8, <3>3, <3>4, <3>5
  <2> QED
    BY <2>1, <2>2, Prefix
<1> HIDE DEF last
<1>11. last <= m /\ last \in 0 .. m
  BY <1>4, <1>8, <1>10
<1>12. \A t \in 1 .. last : Verdict[t].flow # "Stop"
  BY <1>8, <1>10
<1>13. \A t \in 0 .. last - 1 : Verdict[t].flow = "Continue"
  <2>1. last # 0 => \A u \in 0 .. m : u < last => Verdict[u].flow = "Continue"
    BY <1>8, <1>10
  <2> QED
    BY <1>4, <1>10, <1>11, <2>1
<1>14. Verdict[m].batch = Verdict[last].batch
  <2> DEFINE S == {k \in 0 .. m : k <= last \/ /\ Verdict[k].flow # "Continue"
                                               /\ Verdict[k].batch = Verdict[last].batch}
  <2>1. 0 \in S
    BY <1>4, <1>10
  <2>2. ASSUME NEW k \in 0 .. m - 1, k \in S PROVE k + 1 \in S
    <3>0. k + 1 \in 1 .. m /\ k + 1 - 1 = k /\ k \in 0 .. m
      BY <1>4
    <3>1. Verdict[k + 1] = IF Verdict[k].flow # "Continue" THEN Stop(Verdict[k].batch)
                           ELSE Accumulate(Verdict[k].batch, AutobatchKind(KindOf[k + 1]),
                                           IndexExist, index.pk)
      BY <1>6, <3>0
    <3>2. CASE k < last
      BY <1>4, <1>10, <3>0, <3>2
    <3>3. CASE k = last /\ Verdict[k].flow = "Continue"
      <4>1. \A u \in 0 .. m : u < k + 1 => Verdict[u].flow = "Continue"
        <5>1. \A u \in 0 .. m : u < k + 1 => u = last \/ u \in 0 .. last - 1
          BY <1>4, <1>10, <3>3
        <5> QED
          BY <1>13, <3>3, <5>1
      <4>2. k + 1 \notin ids /\ k + 1 \in 0 .. m /\ k + 1 # 0
        BY <1>4, <1>10, <3>0, <3>3
      <4>3. Verdict[k + 1].flow = "Stop"
        BY <1>8, <4>1, <4>2
      <4>4. Verdict[k + 1] = Stop(Verdict[k].batch)
        BY <1>5, <3>0, <3>1, <3>3, <4>3, StopKeeps
      <4> QED
        BY <3>3, <4>2, <4>4 DEF Stop
    <3>4. CASE Verdict[k].flow # "Continue" /\ k >= last
      <4>1. Verdict[k].batch = Verdict[last].batch
        BY <1>4, <1>10, <3>0, <3>4, <2>2
      <4>2. Verdict[k + 1] = Stop(Verdict[k].batch)
        BY <3>1, <3>4
      <4> QED
        BY <3>0, <4>1, <4>2 DEF Stop
    <3> QED
      BY <1>4, <1>10, <2>2, <3>0, <3>2, <3>3, <3>4
  <2>3. m \in S
    <3> HIDE DEF S
    <3>1. \A k \in 0 .. m : k \in S
      BY <1>4, <2>1, <2>2, UpTo
    <3> QED
      BY <1>4, <3>1
  <2> QED
    BY <1>4, <1>10, <1>11, <2>3
<1>15. \A t \in 1 .. last :
         /\ Joinable(KindOf[t])
         /\ Verdict[t - 1].flow = "Continue"
         /\ Verdict[t].flow # "Stop"
         /\ Verdict[t] = Accumulate(Verdict[t - 1].batch, AutobatchKind(KindOf[t]),
                                    IndexExist, index.pk)
  <2> TAKE t \in 1 .. last
  <2>1. t \in 1 .. m /\ t - 1 \in 0 .. last - 1
    BY <1>4, <1>10, <1>11
  <2> QED
    BY <1>5, <1>6, <1>12, <1>13, <2>1
<1>16. 0 .. last \subseteq Uids
  BY <1>3, <1>4, <1>8, <1>10
<1>17. Highest(Batch.ids) = last
  BY <1>9 DEF last
<1> QED
  BY <1>6, <1>9, <1>10, <1>14, <1>15, <1>16, <1>17

-----------------------------------------------------------------------------
(* One task alone, and one round of accumulate.                             *)

\* An index that is there.
Existing(pk, doc, settings) == State(TRUE, pk, doc, settings)

IsThere(s) == s.exists = TRUE

\* The fields of an index that exists.
LEMMA ExistingFields ==
  ASSUME NEW p, NEW d, NEW x
  PROVE  /\ IsThere(Existing(p, d, x)) /\ Existing(p, d, x).pk = p
         /\ Existing(p, d, x).doc = d /\ Existing(p, d, x).settings = x
  BY DEF Existing, State, IsThere

Succeeds(result) == result.ok = TRUE
Fails(result) == result.ok = FALSE

\* The outcomes of a task: done, with the index it leaves, or failed.
LEMMA ResultFields ==
  ASSUME NEW s
  PROVE  Succeeds(Done(s)) /\ Done(s).index = s /\ Fails(Failed(s)) /\ Failed(s).index = s
  BY DEF Done, Failed, Succeeds, Fails

IsAddition(kind) == kind.type = "DocumentAdditionOrUpdate"
IsSettings(kind) == kind.type = "SettingsUpdate"
Empties(kind)    == kind.type \in {"DocumentDeletion", "DocumentClear"}

\* What ProcessAlone makes of each kind of task.
LEMMA AloneMissing ==
  ASSUME NEW t, NEW kind, Joinable(kind), ~MustCreateIndex(kind)
  PROVE  ProcessAlone(NoIndex, t, kind) = Failed(NoIndex)
<1>1. kind.type # "IndexCreation"
  BY DEF Joinable, Alone
<1>2. ~NoIndex.exists
  BY DEF NoIndex, State
<1> QED
  BY <1>1, <1>2 DEF ProcessAlone

\* A task processed alone on an index that exists, or that it may create.
LEMMA AloneThere ==
  ASSUME NEW s, NEW t, NEW kind, Joinable(kind), IsThere(s) \/ MustCreateIndex(kind)
  PROVE  /\ IsAddition(kind) /\ ~KeyRefused(s, kind.pk) =>
              ProcessAlone(s, t, kind) =
                Done(Existing(KeyAfter(s, kind.pk),
                              DocumentAfter(s.doc, t, kind, kind.method), s.settings))
         /\ Empties(kind) => ProcessAlone(s, t, kind) = Done(Existing(s.pk, {}, s.settings))
         /\ IsSettings(kind) => ProcessAlone(s, t, kind) = Done(Existing(s.pk, s.doc, t))
         /\ kind.type = "IndexDeletion" => ProcessAlone(s, t, kind) = Done(NoIndex)
<1>1. kind.type # "IndexCreation" /\ (s.exists \/ MustCreateIndex(kind))
  BY DEF Joinable, Alone, IsThere
<1>2. ASSUME IsAddition(kind), ~KeyRefused(s, kind.pk)
      PROVE  ProcessAlone(s, t, kind) =
               Done(Existing(KeyAfter(s, kind.pk),
                             DocumentAfter(s.doc, t, kind, kind.method), s.settings))
  BY <1>1, <1>2 DEF ProcessAlone, Existing, IsAddition
<1>3. ASSUME Empties(kind)
      PROVE  ProcessAlone(s, t, kind) = Done(Existing(s.pk, {}, s.settings))
  BY <1>1, <1>3 DEF ProcessAlone, Existing, Empties
<1>4. ASSUME IsSettings(kind)
      PROVE  ProcessAlone(s, t, kind) = Done(Existing(s.pk, s.doc, t))
  BY <1>1, <1>4 DEF ProcessAlone, Existing, IsSettings
<1>5. ASSUME kind.type = "IndexDeletion"
      PROVE  ProcessAlone(s, t, kind) = Done(NoIndex)
  BY <1>1, <1>5 DEF ProcessAlone
<1> QED
  BY <1>2, <1>3, <1>4, <1>5

\* The batches that a task can be accumulated onto.
OperationTypes == {"DocumentOperation", "SettingsAndDocumentOperation"}
ClearTypes == {"DocumentClear", "ClearAndSettings"}
OpenBatches == [
  type:   OperationTypes \cup ClearTypes \cup {"DocumentDeletion", "Settings"},
  method: {"Replace", "Update"},
  create: SUBSET BOOLEAN,
  pk:     SUBSET (PrimaryKeys \cup {None})]

\* Only additions and updates of settings may create the index.
LEMMA MustCreateFacts ==
  ASSUME NEW kind, Joinable(kind)
  PROVE  MustCreateIndex(kind) <=> \/ IsAddition(kind) /\ kind.create
                                   \/ IsSettings(kind) /\ kind.create /\ ~kind.reset
<1>1. kind.type # "IndexCreation" /\ kind.create \in BOOLEAN /\ kind.reset \in BOOLEAN
  BY DEF Joinable, Alone, KindWithContent
<1>2. CASE IsAddition(kind)
  <2>1. AutobatchKind(kind).create = {kind.create}
    BY <1>2, AutobatchKindFacts DEF IsAddition
  <2>2. ~IsSettings(kind)
    BY <1>2 DEF IsAddition, IsSettings
  <2> QED
    BY <1>1, <1>2, <2>1, <2>2 DEF MustCreateIndex
<1>3. CASE IsSettings(kind)
  <2>1. AutobatchKind(kind).create = {kind.create /\ ~kind.reset}
    BY <1>3, AutobatchKindFacts DEF IsSettings
  <2>2. ~IsAddition(kind)
    BY <1>3 DEF IsAddition, IsSettings
  <2> QED
    BY <1>1, <1>3, <2>1, <2>2 DEF MustCreateIndex
<1>4. CASE ~IsAddition(kind) /\ ~IsSettings(kind)
  <2>1. AutobatchKind(kind).create = {}
    BY <1>4, AutobatchKindFacts DEF IsAddition, IsSettings
  <2> QED
    BY <1>1, <1>4, <2>1 DEF MustCreateIndex
<1> QED
  BY <1>2, <1>3, <1>4

\* The batch that an index deletion makes of the batch this.
Deleting(this) == [this EXCEPT !.type = "IndexDeletion", !.create = {}, !.pk = {}]

\* A round of accumulate that takes its task saw primary keys that agree, and no task
\* that may create an index that the batch may not create.
LEMMA AccumulateOpen ==
  ASSUME NEW this, NEW kind, Joinable(kind), NEW exist \in BOOLEAN, NEW primary_key,
         Accumulate(this, AutobatchKind(kind), exist, primary_key).flow # "Stop"
  PROVE  /\ PrimaryKeysAgree(this, AutobatchKind(kind), primary_key)
         /\ ~exist /\ this.create = {FALSE} => ~MustCreateIndex(kind)
         /\ kind.type # "IndexDeletion" =>
              Accumulate(this, AutobatchKind(kind), exist, primary_key) =
                Merge(this, AutobatchKind(kind), exist)
         /\ kind.type = "IndexDeletion" =>
              Accumulate(this, AutobatchKind(kind), exist, primary_key) =
                Absorb(Deleting(this))
<1> DEFINE k == AutobatchKind(kind)
<1>0. kind \in KindWithContent
  BY DEF Joinable
<1>1. PrimaryKeysAgree(this, k, primary_key) /\ ~(~exist /\ this.create = {FALSE} /\ k.create = {TRUE})
  BY DEF Accumulate, Stop
<1>2. kind.type \in {"DocumentAdditionOrUpdate", "SettingsUpdate", "DocumentDeletion",
                     "DocumentClear", "IndexDeletion"}
  BY AutobatchKindFacts
<1>3. ~exist /\ this.create = {FALSE} => ~MustCreateIndex(kind)
  <2>1. kind.create \in BOOLEAN /\ kind.reset \in BOOLEAN
    BY <1>0 DEF KindWithContent
  <2>2. IsAddition(kind) => k.create = {kind.create}
    BY AutobatchKindFacts DEF IsAddition
  <2>3. IsSettings(kind) => k.create = {kind.create /\ ~kind.reset}
    BY AutobatchKindFacts DEF IsSettings
  <2> HIDE DEF k
  <2>4. CASE IsAddition(kind)
    BY <1>1, <2>1, <2>2, <2>4, MustCreateFacts DEF IsAddition, IsSettings
  <2>5. CASE IsSettings(kind)
    BY <1>1, <2>1, <2>3, <2>5, MustCreateFacts DEF IsAddition, IsSettings
  <2> QED
    BY <2>4, <2>5, MustCreateFacts
<1>4. kind.type # "IndexDeletion" =>
        Accumulate(this, k, exist, primary_key) = Merge(this, k, exist)
  <2>1. kind.type # "IndexDeletion" => k.type # "IndexDeletion"
    BY <1>2, AutobatchKindFacts
  <2> HIDE DEF k
  <2> QED
    BY <1>1, <2>1 DEF Accumulate
<1>5. kind.type = "IndexDeletion" =>
        Accumulate(this, k, exist, primary_key) =
          Absorb(Deleting(this))
  <2>1. kind.type = "IndexDeletion" => k.type = "IndexDeletion"
    BY AutobatchKindFacts
  <2> HIDE DEF k
  <2> QED
    BY <1>1, <2>1 DEF Accumulate, Deleting
<1> QED
  BY <1>1, <1>3, <1>4, <1>5

\* An index deletion closes the batch.
LEMMA AccumulateIndexDeletion ==
  ASSUME NEW this \in OpenBatches, NEW kind, Joinable(kind), kind.type = "IndexDeletion",
         NEW exist \in BOOLEAN, NEW primary_key,
         Accumulate(this, AutobatchKind(kind), exist, primary_key).flow # "Stop"
  PROVE  LET r == Accumulate(this, AutobatchKind(kind), exist, primary_key) IN
         r.flow = "Absorb" /\ r.batch.type = "IndexDeletion"
<1> DEFINE r == Accumulate(this, AutobatchKind(kind), exist, primary_key)
<1>1. r = Absorb(Deleting(this))
  BY AccumulateOpen
<1> HIDE DEF r
<1>2. r.flow = "Absorb" /\ r.batch.type = "IndexDeletion"
  BY <1>1 DEF Absorb, Deleting, OpenBatches
<1> QED
  BY <1>2 DEF r

\* An addition joins operations with its method, or deletions.
LEMMA AccumulateAddition ==
  ASSUME NEW this \in OpenBatches, NEW kind, Joinable(kind), IsAddition(kind),
         NEW exist \in BOOLEAN, NEW primary_key,
         Accumulate(this, AutobatchKind(kind), exist, primary_key).flow # "Stop"
  PROVE  LET r == Accumulate(this, AutobatchKind(kind), exist, primary_key) IN
         /\ r.flow = "Continue" /\ r.batch \in OpenBatches
         /\ \/ /\ this.type \in OperationTypes /\ r.batch.type = this.type
               /\ r.batch.create = this.create /\ this.method = kind.method
            \/ /\ this.type = "DocumentDeletion" /\ r.batch.type = "DocumentOperation"
               /\ r.batch.create = {kind.create} /\ (exist \/ ~kind.create)
         /\ r.batch.method = kind.method /\ r.batch.pk = {kind.pk}
         /\ primary_key = None /\ this.pk # {} => this.pk = {kind.pk}
<1> DEFINE k == AutobatchKind(kind)
           r == Accumulate(this, k, exist, primary_key)
<1>0. r = Merge(this, k, exist) /\ PrimaryKeysAgree(this, k, primary_key)
  BY AccumulateOpen DEF IsAddition, IsSettings
<1>1. k = [type |-> "DocumentImport", method |-> kind.method,
           create |-> {kind.create}, pk |-> {kind.pk}]
  BY AutobatchKindFacts DEF IsAddition
<1>2. r = MergeImport(this, k, exist)
  BY <1>0, <1>1 DEF Merge
<1>3. primary_key = None /\ this.pk # {} => this.pk = {kind.pk}
  BY <1>0, <1>1 DEF PrimaryKeysAgree
<1>4. kind.method \in {"Replace", "Update"} /\ kind.pk \in PrimaryKeys \cup {None}
      /\ kind.create \in BOOLEAN
  BY DEF KindWithContent, Joinable
<1>5. r.flow # "Stop"
  OBVIOUS
<1> HIDE DEF k, r
<1>6. CASE this.type \in OperationTypes
  <2>1. this.method = kind.method /\ r = Continue([this EXCEPT !.pk = {kind.pk}])
    BY <1>1, <1>2, <1>5, <1>6 DEF MergeImport, Stop, OperationTypes
  <2>2. [this EXCEPT !.pk = {kind.pk}] \in OpenBatches
    BY <1>4 DEF OpenBatches
  <2>3. /\ r.flow = "Continue" /\ r.batch \in OpenBatches
        /\ r.batch.type = this.type /\ r.batch.create = this.create
        /\ r.batch.method = this.method /\ r.batch.pk = {kind.pk}
    BY <2>1, <2>2 DEF Continue, OpenBatches
  <2> QED
    BY <1>3, <1>6, <2>1, <2>3 DEF k, r
<1>7. CASE this.type \notin OperationTypes
  <2>1. /\ this.type = "DocumentDeletion" /\ (exist \/ {kind.create} = {FALSE})
        /\ r = Continue(BatchOf("DocumentOperation", k))
    BY <1>1, <1>2, <1>5, <1>7 DEF MergeImport, Stop, OperationTypes
  <2>2. BatchOf("DocumentOperation", k) =
          [type |-> "DocumentOperation", method |-> kind.method,
           create |-> {kind.create}, pk |-> {kind.pk}]
    BY <1>1 DEF BatchOf
  <2>3. /\ r.flow = "Continue" /\ r.batch \in OpenBatches
        /\ r.batch.type = "DocumentOperation" /\ r.batch.create = {kind.create}
        /\ r.batch.method = kind.method /\ r.batch.pk = {kind.pk}
    BY <1>4, <2>1, <2>2 DEF Continue, OpenBatches, OperationTypes
  <2>4. exist \/ ~kind.create
    BY <1>4, <2>1
  <2> QED
    BY <1>3, <2>1, <2>3, <2>4 DEF k, r
<1> QED
  BY <1>6, <1>7

\* A clear joins every batch, and empties it of documents.
LEMMA AccumulateClear ==
  ASSUME NEW this \in OpenBatches, NEW kind, Joinable(kind), kind.type = "DocumentClear",
         NEW exist \in BOOLEAN, NEW primary_key,
         Accumulate(this, AutobatchKind(kind), exist, primary_key).flow # "Stop"
  PROVE  LET r == Accumulate(this, AutobatchKind(kind), exist, primary_key) IN
         /\ r.flow = "Continue" /\ r.batch \in OpenBatches
         /\ \/ /\ this.type \in {"Settings", "ClearAndSettings", "SettingsAndDocumentOperation"}
               /\ r.batch.type = "ClearAndSettings" /\ r.batch.create = this.create
            \/ r.batch.type = "DocumentClear"
<1> DEFINE k == AutobatchKind(kind)
           r == Accumulate(this, k, exist, primary_key)
<1>0. r = Merge(this, k, exist) /\ PrimaryKeysAgree(this, k, primary_key)
  BY AccumulateOpen DEF IsAddition, IsSettings
<1>1. k.type = "DocumentClear"
  BY AutobatchKindFacts
<1>2. r = Merge(this, k, exist)
  BY <1>0
<1> HIDE DEF k, r
<1>3. CASE this.type \in {"Settings", "ClearAndSettings", "SettingsAndDocumentOperation"}
  <2>1. r = Continue([this EXCEPT !.type = "ClearAndSettings", !.pk = {}])
    BY <1>1, <1>2, <1>3 DEF Merge
  <2>2. /\ r.flow = "Continue" /\ r.batch \in OpenBatches
        /\ r.batch.type = "ClearAndSettings" /\ r.batch.create = this.create
    BY <2>1 DEF Continue, OpenBatches, ClearTypes
  <2> QED
    BY <1>3, <2>2 DEF k, r
<1>4. CASE this.type \notin {"Settings", "ClearAndSettings", "SettingsAndDocumentOperation"}
  <2>1. r = Continue([this EXCEPT !.type = "DocumentClear", !.create = {}, !.pk = {}])
    BY <1>1, <1>2, <1>4 DEF Merge
  <2>2. /\ r.flow = "Continue" /\ r.batch \in OpenBatches /\ r.batch.type = "DocumentClear"
    BY <2>1 DEF Continue, OpenBatches, ClearTypes
  <2> QED
    BY <2>2 DEF k, r
<1> QED
  BY <1>3, <1>4

\* A deletion leaves the batch as it is.
LEMMA AccumulateDeletion ==
  ASSUME NEW this \in OpenBatches, NEW kind, Joinable(kind), kind.type = "DocumentDeletion",
         NEW exist \in BOOLEAN, NEW primary_key,
         Accumulate(this, AutobatchKind(kind), exist, primary_key).flow # "Stop"
  PROVE  LET r == Accumulate(this, AutobatchKind(kind), exist, primary_key) IN
         /\ r.flow = "Continue" /\ r.batch \in OpenBatches
         /\ r.batch = this
         /\ this.type \notin {"Settings", "SettingsAndDocumentOperation"}
<1> DEFINE k == AutobatchKind(kind)
           r == Accumulate(this, k, exist, primary_key)
<1>0. r = Merge(this, k, exist) /\ PrimaryKeysAgree(this, k, primary_key)
  BY AccumulateOpen DEF IsAddition, IsSettings
<1>1. k.type = "DocumentDeletion"
  BY AutobatchKindFacts
<1>2. r = Merge(this, k, exist) /\ r.flow # "Stop"
  BY <1>0
<1> HIDE DEF k, r
<1>3. r = Continue(this) /\ this.type \notin {"Settings", "SettingsAndDocumentOperation"}
  BY <1>1, <1>2 DEF Merge, Stop
<1>4. r.flow = "Continue" /\ r.batch = this
  BY <1>3 DEF Continue
<1> QED
  BY <1>3, <1>4 DEF k, r

\* Settings join all batches but those of clears or of deletions.
LEMMA AccumulateSettings ==
  ASSUME NEW this \in OpenBatches, NEW kind, Joinable(kind), IsSettings(kind),
         NEW exist \in BOOLEAN, NEW primary_key,
         Accumulate(this, AutobatchKind(kind), exist, primary_key).flow # "Stop"
  PROVE  LET r == Accumulate(this, AutobatchKind(kind), exist, primary_key) IN
         /\ r.flow = "Continue" /\ r.batch \in OpenBatches
         /\ this.type \notin {"DocumentClear", "DocumentDeletion"}
         /\ r.batch.type = IF this.type = "DocumentOperation"
                           THEN "SettingsAndDocumentOperation" ELSE this.type
         /\ r.batch.create = this.create /\ r.batch.method = this.method
         /\ r.batch.pk = this.pk
<1> DEFINE k == AutobatchKind(kind)
           r == Accumulate(this, k, exist, primary_key)
<1>0. r = Merge(this, k, exist) /\ PrimaryKeysAgree(this, k, primary_key)
  BY AccumulateOpen DEF IsAddition, IsSettings
<1>1. k.type = "Settings"
  BY AutobatchKindFacts DEF IsSettings
<1>2. r = Merge(this, k, exist) /\ r.flow # "Stop"
  BY <1>0
<1> HIDE DEF k, r
<1>3. /\ this.type \notin {"DocumentClear", "DocumentDeletion"}
      /\ r = IF this.type = "DocumentOperation"
             THEN Continue(BatchOf("SettingsAndDocumentOperation", this)) ELSE Continue(this)
  BY <1>1, <1>2 DEF Merge, Stop
<1>4. CASE this.type = "DocumentOperation"
  <2>1. BatchOf("SettingsAndDocumentOperation", this) \in OpenBatches
    BY DEF BatchOf, OpenBatches, OperationTypes
  <2>2. /\ r.flow = "Continue" /\ r.batch \in OpenBatches
        /\ r.batch.type = "SettingsAndDocumentOperation" /\ r.batch.create = this.create
        /\ r.batch.method = this.method /\ r.batch.pk = this.pk
    BY <1>3, <1>4, <2>1 DEF Continue, BatchOf, OpenBatches
  <2> QED
    BY <1>3, <1>4, <2>2 DEF k, r
<1>5. CASE this.type # "DocumentOperation"
  <2>1. r.flow = "Continue" /\ r.batch = this
    BY <1>3, <1>5 DEF Continue
  <2> QED
    BY <1>3, <1>5, <2>1 DEF k, r
<1> QED
  BY <1>4, <1>5

-----------------------------------------------------------------------------
(* The tasks of the batch one by one, next to the batch that they make.     *)

\* The settings of s, the index after the tasks up to t, are those of the last one that
\* sets them.
SettingsSame(t, s) ==
  \/ s.settings = index.settings /\ \A u \in 0 .. t : ~IsSettings(KindOf[u])
  \/ \E c \in 0 .. t : /\ s.settings = c /\ IsSettings(KindOf[c])
                       /\ \A u \in 0 .. t : IsSettings(KindOf[u]) => u <= c

\* The document of s, and the tasks that made the batch b what it is.
DocumentSame(t, b, s) ==
  /\ b.type \in ClearTypes \cup {"DocumentDeletion"} => s.doc = {}
  /\ b.type \in ClearTypes => \E u \in 0 .. t : KindOf[u].type = "DocumentClear"
  /\ b.type = "Settings" => s.doc = index.doc
  /\ b.type = "Settings" => \A u \in 0 .. t : IsSettings(KindOf[u])
  /\ b.type = "DocumentDeletion" => \A u \in 0 .. t : KindOf[u].type = "DocumentDeletion"
  /\ b.type \in OperationTypes =>
       \A u \in 0 .. t : /\ KindOf[u].type \in {"DocumentAdditionOrUpdate", "DocumentDeletion",
                                               "SettingsUpdate"}
                         /\ IsAddition(KindOf[u]) => KindOf[u].method = b.method

FirstAddition(a) == IsAddition(KindOf[a]) /\ \A u \in 0 .. a - 1 : ~IsAddition(KindOf[u])

\* The primary key of s is the one that the first addition leaves, and the others name it.
KeySame(t, b, s) ==
  /\ b.type \in {"DocumentDeletion", "Settings"} => s.pk = index.pk
  /\ b.type \in OperationTypes =>
       /\ b.pk # {}
       /\ \E a \in 0 .. t : /\ FirstAddition(a)
                            /\ s.pk = KeyAfter(index, KindOf[a].pk)
                            /\ ~KeyRefused(index, KindOf[a].pk)
                            /\ index.pk = None => b.pk = {KindOf[a].pk}

Same(t, b, s) ==
  b \in OpenBatches /\ IsThere(s) /\ SettingsSame(t, s) /\ DocumentSame(t, b, s)
  /\ KeySame(t, b, s)

\* The key that the task names is that of the index.
KeyMatches(kind) == IsAddition(kind) /\ index.pk # None => kind.pk \in {None, index.pk}

\* A task that is neither settings nor an addition leaves the settings.
LEMMA SettingsKept ==
  ASSUME NEW t \in Nat, NEW s, NEW s1, SettingsSame(t, s), s1.settings = s.settings,
         ~IsSettings(KindOf[t + 1])
  PROVE  SettingsSame(t + 1, s1)
<1>1. \A u \in 0 .. t + 1 : u \in 0 .. t \/ u = t + 1
  OBVIOUS
<1>2. \A u \in 0 .. t : u \in 0 .. t + 1
  OBVIOUS
<1> QED
  BY <1>1, <1>2 DEF SettingsSame

\* An update of settings that was just applied is the last one.
LEMMA SettingsSet ==
  ASSUME NEW t \in Nat, NEW s1, s1.settings = t + 1, IsSettings(KindOf[t + 1])
  PROVE  SettingsSame(t + 1, s1)
<1>1. t + 1 \in 0 .. t + 1 /\ \A u \in 0 .. t + 1 : u <= t + 1
  OBVIOUS
<1> QED
  BY <1>1 DEF SettingsSame

\* An addition that goes on with the key of the index is not refused.
LEMMA SameAfterAddition ==
  ASSUME QueueTyped, NEW t \in Nat, NEW b, NEW s, Same(t, b, s), NEW exist \in BOOLEAN,
         Joinable(KindOf[t + 1]), IsAddition(KindOf[t + 1]), KeyMatches(KindOf[t + 1]),
         Accumulate(b, AutobatchKind(KindOf[t + 1]), exist, index.pk).flow # "Stop"
  PROVE  LET r == Accumulate(b, AutobatchKind(KindOf[t + 1]), exist, index.pk)
             after == ProcessAlone(s, t + 1, KindOf[t + 1])
         IN Succeeds(after) /\ Same(t + 1, r.batch, after.index)
<1> DEFINE k == KindOf[t + 1]
           r == Accumulate(b, AutobatchKind(k), exist, index.pk)
           after == ProcessAlone(s, t + 1, k)
           s1 == Existing(KeyAfter(s, k.pk), DocumentAfter(s.doc, t + 1, k, k.method), s.settings)
<1>1. /\ r.flow = "Continue" /\ r.batch \in OpenBatches
      /\ \/ b.type \in OperationTypes /\ r.batch.type = b.type /\ b.method = k.method
         \/ b.type = "DocumentDeletion" /\ r.batch.type = "DocumentOperation"
      /\ r.batch.method = k.method
      /\ r.batch.pk = {k.pk}
      /\ index.pk = None /\ b.pk # {} => b.pk = {k.pk}
  <2>1. k.type # "IndexDeletion" /\ b \in OpenBatches /\ Joinable(k) /\ IsAddition(k)
        /\ r.flow # "Stop"
    BY DEF IsAddition, Same
  <2> HIDE DEF k
  <2> QED
    BY <2>1, AccumulateAddition
<1>2. ~KeyRefused(s, k.pk) => after = Done(s1)
  <2>1. IsThere(s) /\ Joinable(k) /\ IsAddition(k)
    BY DEF Same
  <2> HIDE DEF k
  <2> QED
    BY <2>1, AloneThere
<1>3. k.pk \in PrimaryKeys \cup {None} /\ Inferred # None
  BY TaskKindsAssumption, NoneAssumption DEF Joinable, KindWithContent
<1> HIDE DEF k, r, after
<1>4. CASE b.type \in OperationTypes
  <2>1. PICK a \in 0 .. t : /\ FirstAddition(a)
                            /\ s.pk = KeyAfter(index, KindOf[a].pk)
                            /\ ~KeyRefused(index, KindOf[a].pk)
                            /\ index.pk = None => b.pk = {KindOf[a].pk}
    BY <1>4 DEF Same, KeySame
  <2>2. b.pk # {}
    BY <1>4 DEF Same, KeySame
  <2>3. index.pk = None => KindOf[a].pk = k.pk
    BY <1>1, <2>1, <2>2
  <2>4. ~KeyRefused(s, k.pk) /\ KeyAfter(s, k.pk) = s.pk
    <3>1. CASE index.pk = None
      BY <1>3, <2>1, <2>3, <3>1 DEF KeyRefused, KeyAfter
    <3>2. CASE index.pk # None
      <4>1. k.pk \in {None, index.pk}
        BY <3>2 DEF KeyMatches, k
      <4> QED
        BY <2>1, <3>2, <4>1 DEF KeyRefused, KeyAfter
    <3> QED
      BY <3>1, <3>2
  <2>5. after = Done(s1)
    BY <1>2, <2>4
  <2>6. Succeeds(after) /\ after.index = s1
    BY <2>5, ResultFields
  <2>7. /\ IsThere(s1) /\ s1.pk = s.pk /\ s1.settings = s.settings
    BY <2>4, ExistingFields
  <2> HIDE DEF s1
  <2>8. SettingsSame(t + 1, s1)
    BY <2>7, SettingsKept DEF Same, IsSettings, IsAddition
  <2>9. DocumentSame(t + 1, r.batch, s1)
    <3>1. \A u \in 0 .. t : /\ KindOf[u].type \in {"DocumentAdditionOrUpdate", "DocumentDeletion",
                                                   "SettingsUpdate"}
                            /\ IsAddition(KindOf[u]) => KindOf[u].method = b.method
      BY <1>4 DEF Same, DocumentSame
    <3>2. \A u \in 0 .. t + 1 : u \in 0 .. t \/ u = t + 1
      OBVIOUS
    <3>3. r.batch.type \in OperationTypes /\ r.batch.type = b.type /\ r.batch.method = b.method
          /\ b.method = k.method
      BY <1>1, <1>4 DEF OperationTypes
    <3>4. KindOf[t + 1].type = "DocumentAdditionOrUpdate" /\ KindOf[t + 1].method = r.batch.method
      BY <3>3 DEF k, IsAddition
    <3> QED
      BY <3>1, <3>2, <3>3, <3>4 DEF DocumentSame, OperationTypes, ClearTypes
  <2>10. KeySame(t + 1, r.batch, s1)
    <3>1. a \in 0 .. t + 1
      OBVIOUS
    <3>2. r.batch.type \in OperationTypes /\ r.batch.pk = {k.pk}
      BY <1>1, <1>4 DEF OperationTypes
    <3> QED
      BY <2>1, <2>3, <2>7, <3>1, <3>2 DEF KeySame, OperationTypes
  <2> QED
    BY <1>1, <2>6, <2>7, <2>8, <2>9, <2>10 DEF Same, k, r, after
<1>5. CASE b.type = "DocumentDeletion" /\ r.batch.type = "DocumentOperation"
  <2>1. s.pk = index.pk /\ \A u \in 0 .. t : KindOf[u].type = "DocumentDeletion"
    BY <1>5 DEF Same, KeySame, DocumentSame
  <2>2. ~KeyRefused(index, k.pk) /\ ~KeyRefused(s, k.pk)
    BY <2>1 DEF KeyMatches, KeyRefused, k
  <2>3. after = Done(s1)
    BY <1>2, <2>2
  <2>4. Succeeds(after) /\ after.index = s1
    BY <2>3, ResultFields
  <2>5. KeyAfter(s, k.pk) = KeyAfter(index, k.pk)
    BY <2>1 DEF KeyAfter
  <2>6. IsThere(s1) /\ s1.pk = KeyAfter(index, k.pk) /\ s1.settings = s.settings
    BY <2>5, ExistingFields
  <2> HIDE DEF s1
  <2>7. SettingsSame(t + 1, s1)
    BY <2>6, SettingsKept DEF Same, IsSettings, IsAddition
  <2>8. \A u \in 0 .. t + 1 : u \in 0 .. t \/ u = t + 1
    OBVIOUS
  <2>9. DocumentSame(t + 1, r.batch, s1)
    <3>1. \A u \in 0 .. t : KindOf[u].type = "DocumentDeletion" /\ ~IsAddition(KindOf[u])
      BY <2>1 DEF IsAddition
    <3>2. KindOf[t + 1].type = "DocumentAdditionOrUpdate" /\ KindOf[t + 1].method = r.batch.method
      BY <1>1 DEF k, IsAddition
    <3> QED
      BY <1>5, <2>8, <3>1, <3>2 DEF DocumentSame, OperationTypes, ClearTypes
  <2>10. KeySame(t + 1, r.batch, s1)
    <3>1. FirstAddition(t + 1)
      <4>1. \A u \in 0 .. t + 1 - 1 : u \in 0 .. t
        OBVIOUS
      <4> QED
        BY <2>1, <4>1 DEF FirstAddition, IsAddition
    <3>2. t + 1 \in 0 .. t + 1
      OBVIOUS
    <3> QED
      BY <1>1, <1>5, <2>2, <2>6, <3>1, <3>2 DEF KeySame, OperationTypes, k
  <2> QED
    BY <1>1, <2>4, <2>6, <2>7, <2>9, <2>10 DEF Same, k, r, after
<1> QED
  BY <1>1, <1>4, <1>5

\* After a clear.
LEMMA SameAfterClear ==
  ASSUME NEW t \in Nat, NEW b, NEW s, Same(t, b, s), NEW exist \in BOOLEAN,
         Joinable(KindOf[t + 1]), KindOf[t + 1].type = "DocumentClear",
         Accumulate(b, AutobatchKind(KindOf[t + 1]), exist, index.pk).flow # "Stop"
  PROVE  LET r == Accumulate(b, AutobatchKind(KindOf[t + 1]), exist, index.pk)
             after == ProcessAlone(s, t + 1, KindOf[t + 1])
         IN Succeeds(after) /\ Same(t + 1, r.batch, after.index)
<1> DEFINE k == KindOf[t + 1]
           r == Accumulate(b, AutobatchKind(k), exist, index.pk)
           after == ProcessAlone(s, t + 1, k)
           s1 == Existing(s.pk, {}, s.settings)
<1>0. b \in OpenBatches /\ IsThere(s) /\ Joinable(k) /\ k.type = "DocumentClear" /\ Empties(k)
      /\ r.flow # "Stop" /\ ~IsSettings(k)
  BY DEF Same, Empties, IsSettings
<1> HIDE DEF k
<1>1. r.flow = "Continue" /\ r.batch \in OpenBatches /\ r.batch.type \in ClearTypes
  BY <1>0, AccumulateClear DEF ClearTypes
<1>2. after = Done(s1)
  BY <1>0, AloneThere
<1> HIDE DEF r, after
<1>3. Succeeds(after) /\ after.index = s1
  BY <1>2, ResultFields
<1>4. IsThere(s1) /\ s1.pk = s.pk /\ s1.doc = {} /\ s1.settings = s.settings
  BY ExistingFields
<1> HIDE DEF s1
<1>5. SettingsSame(t + 1, s1)
  BY <1>0, <1>4, SettingsKept DEF Same, k
<1>6. DocumentSame(t + 1, r.batch, s1)
  <2>1. t + 1 \in 0 .. t + 1 /\ KindOf[t + 1].type = "DocumentClear"
    OBVIOUS
  <2> QED
    BY <1>1, <1>4, <2>1 DEF DocumentSame, ClearTypes, OperationTypes
<1>7. KeySame(t + 1, r.batch, s1)
  BY <1>1 DEF KeySame, ClearTypes, OperationTypes
<1> QED
  BY <1>1, <1>3, <1>4, <1>5, <1>6, <1>7 DEF Same, k, r, after

\* After a deletion.
LEMMA SameAfterDeletion ==
  ASSUME NEW t \in Nat, NEW b, NEW s, Same(t, b, s), NEW exist \in BOOLEAN,
         Joinable(KindOf[t + 1]), KindOf[t + 1].type = "DocumentDeletion",
         Accumulate(b, AutobatchKind(KindOf[t + 1]), exist, index.pk).flow # "Stop"
  PROVE  LET r == Accumulate(b, AutobatchKind(KindOf[t + 1]), exist, index.pk)
             after == ProcessAlone(s, t + 1, KindOf[t + 1])
         IN Succeeds(after) /\ Same(t + 1, r.batch, after.index)
<1> DEFINE k == KindOf[t + 1]
           r == Accumulate(b, AutobatchKind(k), exist, index.pk)
           after == ProcessAlone(s, t + 1, k)
           s1 == Existing(s.pk, {}, s.settings)
<1>0. b \in OpenBatches /\ IsThere(s) /\ Joinable(k) /\ k.type = "DocumentDeletion" /\ Empties(k)
      /\ r.flow # "Stop" /\ ~IsSettings(k) /\ ~IsAddition(k)
  BY DEF Same, Empties, IsSettings, IsAddition
<1> HIDE DEF k
<1>1. r.batch = b /\ b.type \notin {"Settings", "SettingsAndDocumentOperation"}
  BY <1>0, AccumulateDeletion
<1>2. after = Done(s1)
  BY <1>0, AloneThere
<1> HIDE DEF r, after
<1>3. Succeeds(after) /\ after.index = s1
  BY <1>2, ResultFields
<1>4. IsThere(s1) /\ s1.pk = s.pk /\ s1.doc = {} /\ s1.settings = s.settings
  BY ExistingFields
<1> HIDE DEF s1
<1>5. SettingsSame(t + 1, s1)
  BY <1>0, <1>4, SettingsKept DEF Same, k
<1>6. \A u \in 0 .. t + 1 : u \in 0 .. t \/ u = t + 1
  OBVIOUS
<1>7. DocumentSame(t + 1, b, s1)
  <2>1. DocumentSame(t, b, s)
    BY DEF Same
  <2>2. \A u \in 0 .. t : u \in 0 .. t + 1
    OBVIOUS
  <2> QED
    BY <1>0, <1>1, <1>4, <1>6, <2>1, <2>2 DEF DocumentSame, OperationTypes, k
<1>8. KeySame(t + 1, b, s1)
  <2>1. \A a \in 0 .. t : a \in 0 .. t + 1
    OBVIOUS
  <2> QED
    BY <1>4, <2>1 DEF Same, KeySame
<1> QED
  BY <1>0, <1>1, <1>3, <1>4, <1>5, <1>7, <1>8 DEF Same, k, r, after

\* After new settings.
LEMMA SameAfterSettings ==
  ASSUME NEW t \in Nat, NEW b, NEW s, Same(t, b, s), NEW exist \in BOOLEAN,
         Joinable(KindOf[t + 1]), IsSettings(KindOf[t + 1]),
         Accumulate(b, AutobatchKind(KindOf[t + 1]), exist, index.pk).flow # "Stop"
  PROVE  LET r == Accumulate(b, AutobatchKind(KindOf[t + 1]), exist, index.pk)
             after == ProcessAlone(s, t + 1, KindOf[t + 1])
         IN Succeeds(after) /\ Same(t + 1, r.batch, after.index)
<1> DEFINE k == KindOf[t + 1]
           r == Accumulate(b, AutobatchKind(k), exist, index.pk)
           after == ProcessAlone(s, t + 1, k)
           s1 == Existing(s.pk, s.doc, t + 1)
<1>0. b \in OpenBatches /\ IsThere(s) /\ Joinable(k) /\ IsSettings(k) /\ r.flow # "Stop"
      /\ ~IsAddition(k) /\ k.type = "SettingsUpdate"
  BY DEF Same, IsSettings, IsAddition
<1> HIDE DEF k
<1>1. /\ r.batch \in OpenBatches
      /\ b.type \notin {"DocumentClear", "DocumentDeletion"}
      /\ r.batch.type = IF b.type = "DocumentOperation"
                        THEN "SettingsAndDocumentOperation" ELSE b.type
      /\ r.batch.method = b.method /\ r.batch.pk = b.pk
  BY <1>0, AccumulateSettings
<1>2. after = Done(s1)
  BY <1>0, AloneThere
<1> HIDE DEF r, after
<1>3. Succeeds(after) /\ after.index = s1
  BY <1>2, ResultFields
<1>4. IsThere(s1) /\ s1.pk = s.pk /\ s1.doc = s.doc /\ s1.settings = t + 1
  BY ExistingFields
<1> HIDE DEF s1
<1>5. SettingsSame(t + 1, s1)
  BY <1>0, <1>4, SettingsSet DEF k
<1>6. \A u \in 0 .. t + 1 : u \in 0 .. t \/ u = t + 1
  OBVIOUS
<1>7. b.type \in OperationTypes <=> r.batch.type \in OperationTypes
  BY <1>1 DEF OperationTypes
<1>8. /\ r.batch.type \in ClearTypes \cup {"DocumentDeletion", "Settings"} => r.batch.type = b.type
      /\ r.batch.type # "DocumentDeletion"
  BY <1>1 DEF ClearTypes
<1>9. DocumentSame(t + 1, r.batch, s1)
  <2>1. DocumentSame(t, b, s)
    BY DEF Same
  <2>2. r.batch.type \in ClearTypes \cup {"DocumentDeletion"} => s1.doc = {}
    BY <1>4, <1>8, <2>1 DEF DocumentSame
  <2>5. r.batch.type \in ClearTypes => \E u \in 0 .. t + 1 : KindOf[u].type = "DocumentClear"
    <3>1. \A u \in 0 .. t : u \in 0 .. t + 1
      OBVIOUS
    <3> QED
      BY <1>8, <2>1, <3>1 DEF DocumentSame
  <2>3. r.batch.type = "Settings" =>
          s1.doc = index.doc /\ \A u \in 0 .. t + 1 : IsSettings(KindOf[u])
    BY <1>0, <1>4, <1>6, <1>8, <2>1 DEF DocumentSame, k
  <2>4. r.batch.type \in OperationTypes =>
          \A u \in 0 .. t + 1 : /\ KindOf[u].type \in {"DocumentAdditionOrUpdate",
                                                      "DocumentDeletion", "SettingsUpdate"}
                                /\ IsAddition(KindOf[u]) => KindOf[u].method = r.batch.method
    BY <1>0, <1>1, <1>6, <1>7, <2>1 DEF DocumentSame, k
  <2> QED
    BY <1>8, <2>2, <2>3, <2>4, <2>5 DEF DocumentSame
<1>10. KeySame(t + 1, r.batch, s1)
  <2>1. \A a \in 0 .. t : a \in 0 .. t + 1
    OBVIOUS
  <2>2. KeySame(t, b, s)
    BY DEF Same
  <2> QED
    BY <1>1, <1>4, <1>7, <1>8, <2>1, <2>2 DEF KeySame
<1> QED
  BY <1>1, <1>3, <1>4, <1>5, <1>9, <1>10 DEF Same, k, r, after

\* The batch that an addition opens.
LEMMA ImportBatch ==
  ASSUME NEW m, NEW c, NEW p
  PROVE  BatchOf("DocumentOperation",
                 [type |-> "DocumentImport", method |-> m, create |-> c, pk |-> p]) =
           [type |-> "DocumentOperation", method |-> m, create |-> c, pk |-> p]
  BY DEF BatchOf

\* The first task of a batch that goes on.
LEMMA NewFacts ==
  ASSUME QueueTyped, queue # <<>>, New.flow = "Continue"
  PROVE  /\ Joinable(KindOf[0]) /\ KindOf[0].type # "IndexDeletion"
         /\ New.batch \in OpenBatches
         /\ IsAddition(KindOf[0]) =>
              /\ New.batch.type = "DocumentOperation" /\ New.batch.method = KindOf[0].method
              /\ New.batch.create = {KindOf[0].create} /\ New.batch.pk = {KindOf[0].pk}
              /\ ~KeyRefused(index, KindOf[0].pk)
         /\ Empties(KindOf[0]) => New.batch.type = KindOf[0].type
         /\ IsSettings(KindOf[0]) =>
              /\ New.batch.type = "Settings"
              /\ New.batch.create = {KindOf[0].create /\ ~KindOf[0].reset}
<1> DEFINE k0 == KindOf[0]
           k == AutobatchKind(k0)
<1>1. k0 \in KindWithContent /\ k0.type \in IndexKinds
  BY QueueFacts
<1>2. New = BatchKindNew(k0, index.pk) /\ New.flow = "Continue"
  BY DEF New
<1> HIDE DEF k0
<1>3. k0.type \notin Alone /\ k0.type # "IndexDeletion"
  <2>1. k0.type \in Alone \cup {"IndexDeletion"} => k.type = k0.type
    BY DEF AutobatchKind, Alone
  <2> HIDE DEF k
  <2>2. k0.type \in Alone \cup {"IndexDeletion"} => BatchKindNew(k0, index.pk) = Absorb(k)
    BY <2>1 DEF BatchKindNew, k, Alone
  <2> QED
    BY <1>2, <2>2 DEF Absorb
<1>4. Joinable(k0)
  BY <1>1, <1>3 DEF Joinable
<1>5. k0.method \in {"Replace", "Update"} /\ k0.pk \in PrimaryKeys \cup {None}
      /\ k0.create \in BOOLEAN /\ k0.reset \in BOOLEAN
  BY <1>1 DEF KindWithContent
<1>6. CASE IsAddition(k0)
  <2>1. k = [type |-> "DocumentImport", method |-> k0.method,
             create |-> {k0.create}, pk |-> {k0.pk}]
    BY <1>4, <1>6, AutobatchKindFacts DEF IsAddition
  <2>2. New = IF index.pk = None \/ k0.pk \in {None, index.pk}
              THEN Continue(BatchOf("DocumentOperation", k))
              ELSE Absorb(BatchOf("DocumentOperation", k))
    BY <1>2, <2>1 DEF BatchKindNew
  <2> HIDE DEF k
  <2>3. /\ index.pk = None \/ k0.pk \in {None, index.pk}
        /\ New = Continue(BatchOf("DocumentOperation", k))
    BY <1>2, <2>2 DEF Absorb
  <2>4. BatchOf("DocumentOperation", k) =
          [type |-> "DocumentOperation", method |-> k0.method,
           create |-> {k0.create}, pk |-> {k0.pk}]
    BY <2>1, ImportBatch
  <2>5. New.batch = [type |-> "DocumentOperation", method |-> k0.method,
                     create |-> {k0.create}, pk |-> {k0.pk}]
    BY <2>3, <2>4 DEF Continue
  <2>6. New.batch \in OpenBatches
    BY <1>5, <2>5 DEF OpenBatches, OperationTypes
  <2>7. ~KeyRefused(index, k0.pk)
    BY <2>3 DEF KeyRefused
  <2> QED
    BY <1>3, <1>4, <1>6, <2>5, <2>6, <2>7 DEF k0, IsAddition, Empties, IsSettings
<1>7. CASE Empties(k0)
  <2>1. k = [type |-> k0.type, method |-> "Replace", create |-> {}, pk |-> {}]
    BY <1>4, <1>7, AutobatchKindFacts DEF Empties
  <2>2. New = Continue(k)
    BY <1>2, <1>7, <2>1 DEF BatchKindNew, Empties
  <2> HIDE DEF k
  <2>3. New.batch = k
    BY <2>2 DEF Continue
  <2>4. k \in OpenBatches /\ k.type = k0.type
    BY <1>7, <2>1 DEF OpenBatches, ClearTypes, Empties
  <2> QED
    BY <1>3, <1>4, <1>7, <2>3, <2>4 DEF k0, IsAddition, Empties, IsSettings
<1>8. CASE IsSettings(k0)
  <2>1. k = [type |-> "Settings", method |-> "Replace",
             create |-> {k0.create /\ ~k0.reset}, pk |-> {}]
    BY <1>4, <1>8, AutobatchKindFacts DEF IsSettings
  <2>2. New = Continue(k)
    BY <1>2, <2>1 DEF BatchKindNew
  <2>3. (k0.create /\ ~k0.reset) \in BOOLEAN
    BY <1>5
  <2> HIDE DEF k
  <2>4. New.batch = k
    BY <2>2 DEF Continue
  <2>5. k \in OpenBatches /\ k.type = "Settings" /\ k.create = {k0.create /\ ~k0.reset}
    BY <2>1, <2>3 DEF OpenBatches
  <2> QED
    BY <1>3, <1>4, <1>8, <2>4, <2>5 DEF k0, IsAddition, Empties, IsSettings
<1> QED
  BY <1>4, <1>6, <1>7, <1>8, <1>3, AutobatchKindFacts DEF IsAddition, Empties, IsSettings

\* The starting index is missing, or exists and has one of the keys or none.
LEMMA IndexFacts ==
  ASSUME QueueTyped
  PROVE  /\ IsThere(index) \/ (index = NoIndex /\ ~IsThere(index))
         /\ IsThere(index) <=> index.exists
         /\ index.exists \in BOOLEAN
         /\ index.pk \in PrimaryKeys \cup {None}
<1>1. index = NoIndex \/ index = Existing(index.pk, index.doc, index.settings)
  BY StartIndexesAssumption DEF QueueTyped, Existing
<1>2. index.pk \in PrimaryKeys \cup {None}
  BY StartIndexesAssumption DEF QueueTyped
<1>3. NoIndex.exists = FALSE
  BY DEF NoIndex, State
<1>4. CASE index = NoIndex
  BY <1>2, <1>3, <1>4 DEF IsThere
<1>5. CASE index = Existing(index.pk, index.doc, index.settings)
  <2>1. IsThere(index)
    BY <1>5, ExistingFields
  <2> QED
    BY <1>2, <2>1 DEF IsThere
<1> QED
  BY <1>1, <1>4, <1>5

\* The loop invariant holds after the first task of a batch on an index that exists or
\* is created by it.
LEMMA FirstSame ==
  ASSUME QueueTyped, queue # <<>>, New.flow = "Continue", IndexExist
  PROVE  LET after == ProcessAlone(index, 0, KindOf[0])
         IN Succeeds(after) /\ Same(0, New.batch, after.index)
<1> DEFINE k == KindOf[0]
           b == New.batch
           after == ProcessAlone(index, 0, k)
<1>1. /\ Joinable(k) /\ k.type # "IndexDeletion" /\ b \in OpenBatches
      /\ IsAddition(k) => /\ b.type = "DocumentOperation" /\ b.method = k.method
                          /\ b.pk = {k.pk} /\ ~KeyRefused(index, k.pk)
      /\ Empties(k) => b.type = k.type
      /\ IsSettings(k) => b.type = "Settings"
  BY NewFacts
<1>2. IsThere(index) \/ MustCreateIndex(k)
  BY IndexFacts DEF IndexExist
<1>3. \A u \in 0 .. 0 : u = 0
  OBVIOUS
<1>4. 0 \in 0 .. 0
  OBVIOUS
<1> HIDE DEF b
<1>5. CASE IsAddition(k)
  <2> DEFINE s1 == Existing(KeyAfter(index, k.pk),
                            DocumentAfter(index.doc, 0, k, k.method), index.settings)
  <2>1. after = Done(s1)
    <3> HIDE DEF k
    <3> QED
      BY <1>1, <1>2, <1>5, AloneThere
  <2>2. Succeeds(after) /\ after.index = s1
    BY <2>1, ResultFields
  <2>3. IsThere(s1) /\ s1.pk = KeyAfter(index, k.pk) /\ s1.settings = index.settings
    BY ExistingFields
  <2>4. k.type = "DocumentAdditionOrUpdate" /\ ~IsSettings(k)
    BY <1>5 DEF IsAddition, IsSettings
  <2> HIDE DEF s1, after
  <2>5. SettingsSame(0, s1)
    BY <1>3, <2>3, <2>4 DEF SettingsSame
  <2>6. DocumentSame(0, b, s1)
    BY <1>1, <1>3, <1>5, <2>4 DEF DocumentSame, ClearTypes, OperationTypes
  <2>7. KeySame(0, b, s1)
    <3>1. FirstAddition(0)
      BY <1>5 DEF FirstAddition
    <3> QED
      BY <1>1, <1>4, <1>5, <2>3, <3>1 DEF KeySame, OperationTypes
  <2> QED
    BY <1>1, <2>2, <2>3, <2>5, <2>6, <2>7 DEF Same, after, b
<1>6. CASE Empties(k)
  <2> DEFINE s1 == Existing(index.pk, {}, index.settings)
  <2>1. after = Done(s1)
    <3> HIDE DEF k
    <3> QED
      BY <1>1, <1>2, <1>6, AloneThere
  <2>2. Succeeds(after) /\ after.index = s1
    BY <2>1, ResultFields
  <2>3. IsThere(s1) /\ s1.pk = index.pk /\ s1.doc = {} /\ s1.settings = index.settings
    BY ExistingFields
  <2>4. k.type \in {"DocumentDeletion", "DocumentClear"} /\ ~IsSettings(k) /\ b.type = k.type
    BY <1>1, <1>6 DEF Empties, IsSettings
  <2> HIDE DEF s1, after
  <2>5. SettingsSame(0, s1)
    BY <1>3, <2>3, <2>4 DEF SettingsSame
  <2>6. DocumentSame(0, b, s1)
    BY <1>3, <1>4, <2>3, <2>4 DEF DocumentSame, ClearTypes, OperationTypes
  <2>7. KeySame(0, b, s1)
    BY <2>3, <2>4 DEF KeySame, OperationTypes
  <2> QED
    BY <1>1, <2>2, <2>3, <2>5, <2>6, <2>7 DEF Same, after, b
<1>7. CASE IsSettings(k)
  <2> DEFINE s1 == Existing(index.pk, index.doc, 0)
  <2>1. after = Done(s1)
    <3> HIDE DEF k
    <3> QED
      BY <1>1, <1>2, <1>7, AloneThere
  <2>2. Succeeds(after) /\ after.index = s1
    BY <2>1, ResultFields
  <2>3. IsThere(s1) /\ s1.pk = index.pk /\ s1.doc = index.doc /\ s1.settings = 0
    BY ExistingFields
  <2>4. b.type = "Settings"
    BY <1>1, <1>7
  <2> HIDE DEF s1, after
  <2>5. SettingsSame(0, s1)
    BY <1>3, <1>4, <1>7, <2>3 DEF SettingsSame
  <2>6. DocumentSame(0, b, s1)
    BY <1>3, <1>7, <2>3, <2>4 DEF DocumentSame, ClearTypes, OperationTypes
  <2>7. KeySame(0, b, s1)
    BY <2>3, <2>4 DEF KeySame, OperationTypes
  <2> QED
    BY <1>1, <2>2, <2>3, <2>5, <2>6, <2>7 DEF Same, after, b
<1>8. IsAddition(k) \/ Empties(k) \/ IsSettings(k)
  BY <1>1, AutobatchKindFacts DEF IsAddition, Empties, IsSettings
<1> QED
  BY <1>5, <1>6, <1>7, <1>8

\* The batch of the tasks up to last, which exist tells whether they find or make an index.
Joined(last, exist) ==
  /\ exist <=> IndexExist
  /\ Batch.ids = 0 .. last /\ 0 .. last \subseteq Uids
  /\ Highest(Batch.ids) = last
  /\ Batch.type = Verdict[last].batch.type
  /\ Batch.create <=> MustCreateIndex(KindOf[0])
  /\ Verdict[0] = New
  /\ \A t \in 1 .. last :
       /\ Joinable(KindOf[t])
       /\ Verdict[t - 1].flow = "Continue"
       /\ Verdict[t].flow # "Stop"
       /\ Verdict[t] = Accumulate(Verdict[t - 1].batch, AutobatchKind(KindOf[t]), exist, index.pk)

\* A batch that goes on after its first task is a run of calls of accumulate.
LEMMA JoinedBatch ==
  ASSUME QueueTyped, queue # <<>>, New.flow = "Continue"
  PROVE  \E last \in Nat, exist \in BOOLEAN : Joined(last, exist)
<1>1. PICK last \in Nat :
           /\ Batch.ids = 0 .. last /\ 0 .. last \subseteq Uids
           /\ Highest(Batch.ids) = last
           /\ Batch.type = Verdict[last].batch.type
           /\ Verdict[0] = New
           /\ \A t \in 1 .. last :
                /\ Joinable(KindOf[t])
                /\ Verdict[t - 1].flow = "Continue"
                /\ Verdict[t].flow # "Stop"
                /\ Verdict[t] = Accumulate(Verdict[t - 1].batch, AutobatchKind(KindOf[t]),
                                           IndexExist, index.pk)
  BY BatchStructure
<1>2. Lowest(Uids) = 0
  BY QueueFacts
<1>3. Batch.create <=> MustCreateIndex(KindOf[0])
  BY <1>2 DEF Batch, Autobatch
<1>4. PICK exist \in BOOLEAN : exist = IndexExist
  <2>1. IndexExist \in BOOLEAN
    BY DEF IndexExist
  <2> QED
    BY <2>1
<1>5. Joined(last, exist)
  BY <1>1, <1>3, <1>4, Zenon DEF Joined
<1> QED
  BY <1>5

\* One call of accumulate in that run.
LEMMA JoinedStep ==
  ASSUME NEW last \in Nat, NEW exist \in BOOLEAN, Joined(last, exist), NEW t \in 0 .. last - 1
  PROVE  LET r == Accumulate(Verdict[t].batch, AutobatchKind(KindOf[t + 1]), exist, index.pk)
         IN /\ Joinable(KindOf[t + 1]) /\ Verdict[t].flow = "Continue"
            /\ r.flow # "Stop" /\ Verdict[t + 1] = r
<1>1. t + 1 \in 1 .. last /\ t + 1 - 1 = t
  OBVIOUS
<1>2. /\ Joinable(KindOf[t + 1])
      /\ Verdict[t].flow = "Continue"
      /\ Verdict[t + 1].flow # "Stop"
      /\ Verdict[t + 1] = Accumulate(Verdict[t].batch, AutobatchKind(KindOf[t + 1]),
                                     exist, index.pk)
  BY <1>1 DEF Joined
<1> QED
  BY <1>2

\* An index deletion closes every batch it joins.
LEMMA Absorbs ==
  ASSUME NEW this \in OpenBatches, NEW kind, Joinable(kind), NEW exist \in BOOLEAN,
         NEW primary_key, NEW r, r.flow # "Stop", kind.type = "IndexDeletion",
         r = Accumulate(this, AutobatchKind(kind), exist, primary_key)
  PROVE  r.flow = "Absorb"
  BY AccumulateIndexDeletion

\* A task that is taken and closes the batch is an index deletion.
LEMMA Absorbed ==
  ASSUME NEW this \in OpenBatches, NEW kind, Joinable(kind), NEW exist \in BOOLEAN,
         NEW primary_key, NEW r, r.flow \notin {"Stop", "Continue"},
         r = Accumulate(this, AutobatchKind(kind), exist, primary_key)
  PROVE  kind.type = "IndexDeletion" /\ r.batch.type = "IndexDeletion"
<1>1. kind.type \in {"DocumentAdditionOrUpdate", "SettingsUpdate", "DocumentDeletion",
                     "DocumentClear", "IndexDeletion"}
  BY AutobatchKindFacts
<1>2. r.flow # "Stop" /\ r.flow # "Continue"
  OBVIOUS
<1>3. kind.type # "DocumentAdditionOrUpdate"
  BY <1>2, AccumulateAddition DEF IsAddition
<1>4. kind.type # "SettingsUpdate"
  BY <1>2, AccumulateSettings DEF IsSettings
<1>5. kind.type # "DocumentDeletion"
  BY <1>2, AccumulateDeletion
<1>6. kind.type # "DocumentClear"
  BY <1>2, AccumulateClear
<1>7. kind.type = "IndexDeletion"
  BY <1>1, <1>3, <1>4, <1>5, <1>6
<1> QED
  BY <1>2, <1>7, AccumulateIndexDeletion

\* The task that closes a batch after others joined it is an index deletion.
LEMMA ClosingTask ==
  ASSUME NEW last \in Nat, NEW exist \in BOOLEAN, Joined(last, exist), last # 0,
         Verdict[last - 1].batch \in OpenBatches, Verdict[last].flow # "Continue"
  PROVE  /\ Joinable(KindOf[last]) /\ KindOf[last].type = "IndexDeletion"
         /\ Verdict[last].batch.type = "IndexDeletion"
<1>1. last \in 1 .. last
  OBVIOUS
<1>2. /\ Joinable(KindOf[last])
      /\ Verdict[last].flow # "Stop"
      /\ Verdict[last] = Accumulate(Verdict[last - 1].batch, AutobatchKind(KindOf[last]),
                                    exist, index.pk)
  BY <1>1 DEF Joined
<1> QED
  BY <1>2, Absorbed

-----------------------------------------------------------------------------
(* An index that is missing and that the batch may not create.              *)

\* A batch that may not create the index keeps that: only deletions and clears say nothing.
MayNotCreate(b) ==
  b \in OpenBatches /\ (b.type \notin {"DocumentDeletion", "DocumentClear"} => b.create = {FALSE})

\* A batch without the right to create the index is joined by no task that has it while the
\* index is missing.
LEMMA MissingStep ==
  ASSUME NEW b, MayNotCreate(b), NEW kind, Joinable(kind), NEW exist \in BOOLEAN, ~exist,
         NEW primary_key,
         Accumulate(b, AutobatchKind(kind), exist, primary_key).flow # "Stop"
  PROVE  LET r == Accumulate(b, AutobatchKind(kind), exist, primary_key) IN
         /\ ~MustCreateIndex(kind)
         /\ r.flow = "Continue" => MayNotCreate(r.batch)
<1> DEFINE r == Accumulate(b, AutobatchKind(kind), exist, primary_key)
<1>1. b \in OpenBatches /\ (b.type \notin {"DocumentDeletion", "DocumentClear"} => b.create = {FALSE})
  BY DEF MayNotCreate
<1>2. b.create = {FALSE} => ~MustCreateIndex(kind)
  BY AccumulateOpen
<1>3. kind.type \in {"DocumentAdditionOrUpdate", "SettingsUpdate", "DocumentDeletion",
                     "DocumentClear", "IndexDeletion"}
  BY AutobatchKindFacts
<1>4. CASE IsAddition(kind)
  <2>1. /\ r.batch \in OpenBatches
        /\ \/ /\ b.type \in OperationTypes /\ r.batch.type = b.type
              /\ r.batch.create = b.create
           \/ /\ b.type = "DocumentDeletion" /\ r.batch.type = "DocumentOperation"
              /\ r.batch.create = {kind.create} /\ (exist \/ ~kind.create)
    BY <1>1, <1>4, AccumulateAddition
  <2>2. kind.create \in BOOLEAN
    BY DEF Joinable, KindWithContent
  <2> HIDE DEF r
  <2>3. CASE b.type \in OperationTypes /\ r.batch.type = b.type /\ r.batch.create = b.create
    <3>1. b.create = {FALSE}
      BY <1>1, <2>3 DEF OperationTypes
    <3> QED
      BY <1>2, <2>1, <2>3, <3>1 DEF MayNotCreate, r
  <2>4. CASE r.batch.type = "DocumentOperation" /\ r.batch.create = {kind.create} /\ ~kind.create
    <3>1. ~MustCreateIndex(kind)
      BY <1>4, <2>4, MustCreateFacts DEF IsAddition, IsSettings
    <3>2. r.batch.create = {FALSE}
      BY <2>2, <2>4
    <3> QED
      BY <2>1, <3>1, <3>2 DEF MayNotCreate, r
  <2> QED
    BY <2>1, <2>3, <2>4
<1>5. CASE IsSettings(kind)
  <2>1. /\ r.batch \in OpenBatches /\ r.batch.create = b.create
        /\ b.type \notin {"DocumentClear", "DocumentDeletion"}
    BY <1>1, <1>5, AccumulateSettings
  <2> HIDE DEF r
  <2> QED
    BY <1>1, <1>2, <2>1 DEF MayNotCreate, r
<1>6. ~IsAddition(kind) /\ ~IsSettings(kind) => ~MustCreateIndex(kind)
  BY MustCreateFacts
<1>7. CASE kind.type = "DocumentClear"
  <2>1. /\ r.batch \in OpenBatches
        /\ \/ /\ b.type \in {"Settings", "ClearAndSettings", "SettingsAndDocumentOperation"}
              /\ r.batch.create = b.create
           \/ r.batch.type = "DocumentClear"
    BY <1>1, <1>7, AccumulateClear
  <2> HIDE DEF r
  <2> QED
    BY <1>1, <1>6, <1>7, <2>1 DEF MayNotCreate, IsAddition, IsSettings, r
<1>8. CASE kind.type = "DocumentDeletion"
  <2>1. r.batch = b
    BY <1>1, <1>8, AccumulateDeletion
  <2> HIDE DEF r
  <2> QED
    BY <1>1, <1>6, <1>8, <2>1 DEF MayNotCreate, IsAddition, IsSettings, r
<1>9. CASE kind.type = "IndexDeletion"
  <2>1. r.flow = "Absorb"
    BY <1>1, <1>9, AccumulateIndexDeletion
  <2> HIDE DEF r
  <2> QED
    BY <1>6, <1>9, <2>1 DEF IsAddition, IsSettings, r
<1> QED
  BY <1>3, <1>4, <1>5, <1>7, <1>8, <1>9 DEF IsAddition, IsSettings

\* Each of its tasks fails alone, and they fail together.
LEMMA MissingSame ==
  ASSUME QueueTyped, queue # <<>>, New.flow = "Continue",
         NEW last \in Nat, NEW exist \in BOOLEAN, Joined(last, exist), ~exist
  PROVE  /\ \A t \in 0 .. last : OneByOne[t + 1] = Failed(NoIndex)
         /\ ProcessTogether(index) = Failed(NoIndex)
<1> DEFINE S == {t \in 0 .. last :
                   /\ OneByOne[t + 1] = Failed(NoIndex)
                   /\ Verdict[t].flow = "Continue" => MayNotCreate(Verdict[t].batch)}
<1>0. Highest(Batch.ids) = last
  BY DEF Joined
<1>1. /\ OneByOne[0] = Done(index)
      /\ \A n \in 0 .. last : OneByOne[n + 1] = ProcessAlone(OneByOne[n].index, n, KindOf[n])
  BY <1>0, OneByOneRecursion
<1>2. ~index.exists /\ ~MustCreateIndex(KindOf[0])
  BY DEF Joined, IndexExist
<1>3. index = NoIndex
  BY <1>2, IndexFacts
<1>4. 0 \in S
  <2>1. Joinable(KindOf[0])
    BY NewFacts
  <2>2. OneByOne[0].index = NoIndex
    BY <1>1, <1>3, ResultFields
  <2>3. OneByOne[0 + 1] = Failed(NoIndex)
    BY <1>1, <1>2, <2>1, <2>2, AloneMissing
  <2>4. MayNotCreate(New.batch)
    <3> DEFINE k == KindOf[0]
    <3>1. /\ New.batch \in OpenBatches
          /\ IsAddition(k) => New.batch.create = {k.create}
          /\ Empties(k) => New.batch.type = k.type
          /\ IsSettings(k) => New.batch.create = {k.create /\ ~k.reset}
      BY NewFacts
    <3>2. /\ IsAddition(k) => ~k.create
          /\ IsSettings(k) => ~(k.create /\ ~k.reset)
      BY <1>2, <2>1, MustCreateFacts
    <3>3. k.create \in BOOLEAN /\ k.reset \in BOOLEAN
      BY <2>1 DEF Joinable, KindWithContent
    <3>4. IsAddition(k) \/ Empties(k) \/ IsSettings(k)
      BY <2>1, NewFacts, AutobatchKindFacts DEF IsAddition, Empties, IsSettings
    <3> HIDE DEF k
    <3>5. CASE IsAddition(k)
      BY <3>1, <3>2, <3>3, <3>5 DEF MayNotCreate
    <3>6. CASE IsSettings(k)
      <4>1. (k.create /\ ~k.reset) = FALSE
        BY <3>2, <3>3, <3>6
      <4> QED
        BY <3>1, <3>6, <4>1 DEF MayNotCreate
    <3>7. CASE Empties(k)
      BY <3>1, <3>7 DEF MayNotCreate, Empties
    <3> QED
      BY <3>4, <3>5, <3>6, <3>7
  <2>5. Verdict[0] = New
    BY DEF Joined
  <2> QED
    BY <2>3, <2>4, <2>5
<1>5. ASSUME NEW t \in 0 .. last - 1, t \in S PROVE t + 1 \in S
  <2>1. t + 1 \in 1 .. last /\ t + 1 - 1 = t /\ t + 1 \in 0 .. last
    OBVIOUS
  <2>2. /\ Joinable(KindOf[t + 1])
        /\ Verdict[t].flow = "Continue"
        /\ Verdict[t + 1].flow # "Stop"
        /\ Verdict[t + 1] = Accumulate(Verdict[t].batch, AutobatchKind(KindOf[t + 1]),
                                       exist, index.pk)
    BY JoinedStep
  <2>3. MayNotCreate(Verdict[t].batch) /\ OneByOne[t + 1].index = NoIndex
    BY <1>5, <2>2, ResultFields
  <2>4. /\ ~MustCreateIndex(KindOf[t + 1])
        /\ Verdict[t + 1].flow = "Continue" => MayNotCreate(Verdict[t + 1].batch)
    BY <2>2, <2>3, MissingStep
  <2>5. OneByOne[t + 1 + 1] = Failed(NoIndex)
    BY <1>1, <2>1, <2>2, <2>3, <2>4, AloneMissing
  <2> QED
    BY <2>1, <2>4, <2>5
<1>6. \A t \in 0 .. last : t \in S
  <2> HIDE DEF S
  <2> QED
    BY <1>4, <1>5, UpTo
<1>7. Batch.type \notin Alone
  <2>1. CASE Verdict[last].flow = "Continue"
    <3>0. last \in 0 .. last
      OBVIOUS
    <3>1. Verdict[last].batch \in OpenBatches
      BY <1>6, <2>1, <3>0 DEF MayNotCreate
    <3> QED
      BY <3>1 DEF Joined, OpenBatches, OperationTypes, ClearTypes, Alone
  <2>2. CASE Verdict[last].flow # "Continue"
    <3>1. last # 0
      BY <2>2 DEF Joined
    <3>2. last \in 1 .. last /\ last - 1 \in 0 .. last
      BY <3>1
    <3>3. Verdict[last - 1].flow = "Continue"
      BY <3>2 DEF Joined
    <3>4. Verdict[last - 1].batch \in OpenBatches
      BY <1>6, <3>2, <3>3 DEF MayNotCreate
    <3>5. Verdict[last].batch.type = "IndexDeletion"
      BY <2>2, <3>1, <3>4, ClosingTask
    <3> QED
      BY <3>5 DEF Joined, Alone
  <2> QED
    BY <2>1, <2>2
<1>8. ProcessTogether(index) = Failed(NoIndex)
  <2>1. ~Batch.create
    BY <1>2 DEF Joined
  <2> QED
    BY <1>2, <1>3, <1>7, <2>1 DEF ProcessTogether
<1> QED
  BY <1>6, <1>8

-----------------------------------------------------------------------------
(* An index that is there, or that the first task creates.                  *)

\* The tasks that leave the batch open, one by one, keep up with the batch.
LEMMA JoinedSame ==
  ASSUME QueueTyped, queue # <<>>, New.flow = "Continue", AccumulatedKeysMatch,
         NEW last \in Nat, NEW exist \in BOOLEAN, Joined(last, exist), exist
  PROVE  \A t \in 0 .. last : Verdict[t].flow = "Continue" =>
           Succeeds(OneByOne[t + 1]) /\ Same(t, Verdict[t].batch, OneByOne[t + 1].index)
<1> DEFINE S == {t \in 0 .. last : Verdict[t].flow = "Continue" =>
                   Succeeds(OneByOne[t + 1]) /\ Same(t, Verdict[t].batch, OneByOne[t + 1].index)}
<1>0. Highest(Batch.ids) = last
  BY DEF Joined
<1>1. /\ OneByOne[0] = Done(index)
      /\ \A n \in 0 .. last : OneByOne[n + 1] = ProcessAlone(OneByOne[n].index, n, KindOf[n])
  BY <1>0, OneByOneRecursion
<1>2. 0 \in S
  <2>1. OneByOne[0 + 1] = ProcessAlone(index, 0, KindOf[0])
    BY <1>1, ResultFields
  <2>2. IndexExist /\ Verdict[0] = New
    BY DEF Joined
  <2>3. /\ Succeeds(ProcessAlone(index, 0, KindOf[0]))
        /\ Same(0, New.batch, ProcessAlone(index, 0, KindOf[0]).index)
    BY <2>2, FirstSame
  <2> QED
    BY <2>1, <2>2, <2>3
<1>3. ASSUME NEW t \in 0 .. last - 1, t \in S PROVE t + 1 \in S
  <2> DEFINE k == KindOf[t + 1]
             b == Verdict[t].batch
             s == OneByOne[t + 1].index
             r == Accumulate(b, AutobatchKind(k), exist, index.pk)
             after == ProcessAlone(s, t + 1, k)
  <2>1. t + 1 \in 1 .. last /\ t + 1 - 1 = t /\ t + 1 \in 0 .. last /\ t \in Nat
    OBVIOUS
  <2>2. Joinable(k) /\ Verdict[t].flow = "Continue" /\ r.flow # "Stop" /\ Verdict[t + 1] = r
    BY JoinedStep
  <2>3. Same(t, b, s)
    BY <1>3, <2>2
  <2>4. KeyMatches(k)
    <3>1. t + 1 \in Batch.ids /\ t + 1 # 0
      BY <2>1 DEF Joined
    <3>2. IsAddition(k) => t + 1 \in AdditionsOf(Batch.ids) \ {0}
      BY <3>1 DEF AdditionsOf, IsAddition
    <3> QED
      BY <3>2 DEF AccumulatedKeysMatch, KeyMatches
  <2>5. OneByOne[t + 1 + 1] = after
    BY <1>1, <2>1
  <2>6. r.flow = "Continue" => Succeeds(after) /\ Same(t + 1, r.batch, after.index)
    <3>1. k.type \in {"DocumentAdditionOrUpdate", "SettingsUpdate", "DocumentDeletion",
                      "DocumentClear", "IndexDeletion"}
      BY <2>2, AutobatchKindFacts
    <3>2. CASE IsAddition(k)
      BY <2>1, <2>2, <2>3, <2>4, <3>2, SameAfterAddition
    <3>3. CASE IsSettings(k)
      BY <2>1, <2>2, <2>3, <3>3, SameAfterSettings
    <3>4. CASE k.type = "DocumentDeletion"
      BY <2>1, <2>2, <2>3, <3>4, SameAfterDeletion
    <3>5. CASE k.type = "DocumentClear"
      BY <2>1, <2>2, <2>3, <3>5, SameAfterClear
    <3>6. CASE k.type = "IndexDeletion"
      <4>1. b \in OpenBatches
        BY <2>3 DEF Same
      <4> HIDE DEF k, b
      <4>2. r = Accumulate(b, AutobatchKind(k), exist, index.pk)
        OBVIOUS
      <4> HIDE DEF r
      <4>3. r.flow = "Absorb"
        BY <2>2, <3>6, <4>1, <4>2, Absorbs
      <4> QED
        BY <4>3
    <3> QED
      BY <3>1, <3>2, <3>3, <3>4, <3>5, <3>6 DEF IsAddition, IsSettings
  <2> HIDE DEF k, b, s, r, after
  <2> QED
    BY <2>1, <2>2, <2>5, <2>6
<1>4. \A t \in 0 .. last : t \in S
  <2> HIDE DEF S
  <2> QED
    BY <1>2, <1>3, UpTo
<1> QED
  BY <1>4

\* SettingsAfter gives the settings of the last task that sets them.
LEMMA SettingsAfterSame ==
  ASSUME NEW last \in Nat, Batch.ids = 0 .. last, last \in TaskIds, NEW e, NEW s,
         e.settings = index.settings, SettingsSame(last, s)
  PROVE  SettingsAfter(e) = s.settings
<1> DEFINE C == {t \in Batch.ids : KindOf[t].type = "SettingsUpdate"}
<1>1. C = {t \in 0 .. last : IsSettings(KindOf[t])}
  BY DEF IsSettings
<1>2. SettingsAfter(e) = IF C = {} THEN e.settings ELSE Highest(C)
  BY DEF SettingsAfter
<1> HIDE DEF C
<1>3. CASE s.settings = index.settings /\ \A u \in 0 .. last : ~IsSettings(KindOf[u])
  <2>1. C = {}
    BY <1>1, <1>3
  <2> QED
    BY <1>2, <1>3, <2>1
<1>4. ASSUME NEW c \in 0 .. last, s.settings = c, IsSettings(KindOf[c]),
             \A u \in 0 .. last : IsSettings(KindOf[u]) => u <= c
      PROVE  SettingsAfter(e) = s.settings
  <2>1. c \in C /\ \A u \in C : u <= c /\ u \in Nat
    BY <1>1, <1>4
  <2>2. Highest(C) \in C /\ \A u \in C : u <= Highest(C)
    BY <2>1 DEF Highest
  <2>3. Highest(C) = c
    <3>1. Highest(C) \in Nat /\ c \in Nat /\ c <= Highest(C) /\ Highest(C) <= c
      BY <2>1, <2>2
    <3> QED
      BY <3>1
  <2> QED
    BY <1>2, <1>4, <2>1, <2>3
<1> QED
  BY <1>3, <1>4 DEF SettingsSame

\* BatchKey is the key that the first addition names.
LEMMA BatchKeySame ==
  ASSUME NEW last \in Nat, Batch.ids = 0 .. last, NEW a \in 0 .. last, FirstAddition(a)
  PROVE  BatchKey = KindOf[a].pk
<1> DEFINE A == AdditionsOf(Batch.ids)
<1>1. A = {t \in 0 .. last : IsAddition(KindOf[t])}
  BY DEF AdditionsOf, IsAddition
<1>2. BatchKey = IF A = {} THEN None ELSE KindOf[Lowest(A)].pk
  BY DEF BatchKey
<1> HIDE DEF A
<1>3. a \in A /\ a \in Nat
  BY <1>1 DEF FirstAddition
<1>4. \A u \in A : u \in Nat /\ a <= u
  <2> TAKE u \in A
  <2>1. u \in 0 .. last /\ IsAddition(KindOf[u])
    BY <1>1
  <2>2. u \notin 0 .. a - 1
    BY <2>1 DEF FirstAddition
  <2> QED
    BY <1>3, <2>1, <2>2
<1>5. Lowest(A) \in A /\ \A u \in A : Lowest(A) <= u
  BY <1>3, <1>4 DEF Lowest
<1>6. Lowest(A) = a
  <2>1. Lowest(A) \in Nat /\ a <= Lowest(A) /\ Lowest(A) <= a
    BY <1>3, <1>4, <1>5
  <2> QED
    BY <1>3, <2>1
<1> QED
  BY <1>2, <1>3, <1>6

\* What a task that succeeds alone makes of the document.
LEMMA AloneDocument ==
  ASSUME NEW s, NEW t, NEW kind, Joinable(kind), Succeeds(ProcessAlone(s, t, kind)),
         s.exists \in BOOLEAN
  PROVE  /\ IsAddition(kind) =>
              ProcessAlone(s, t, kind).index.doc = DocumentAfter(s.doc, t, kind, kind.method)
         /\ Empties(kind) => ProcessAlone(s, t, kind).index.doc = {}
         /\ IsSettings(kind) => ProcessAlone(s, t, kind).index.doc = s.doc
<1> DEFINE after == ProcessAlone(s, t, kind)
<1>1. after # Failed(s)
  BY ResultFields DEF Succeeds, Fails
<1>2. kind.type # "IndexCreation"
  BY DEF Joinable, Alone
<1>3. s.exists \/ MustCreateIndex(kind)
  BY <1>1, <1>2 DEF ProcessAlone
<1>4. IsThere(s) \/ MustCreateIndex(kind)
  BY <1>3 DEF IsThere
<1>5. CASE IsAddition(kind)
  <2>1. ~KeyRefused(s, kind.pk)
    BY <1>1, <1>2, <1>3, <1>5 DEF ProcessAlone, IsAddition
  <2>2. after = Done(Existing(KeyAfter(s, kind.pk),
                              DocumentAfter(s.doc, t, kind, kind.method), s.settings))
    BY <1>4, <1>5, <2>1, AloneThere
  <2> HIDE DEF after
  <2>3. after.index.doc = DocumentAfter(s.doc, t, kind, kind.method)
    BY <2>2, ResultFields, ExistingFields
  <2> QED
    BY <1>5, <2>3 DEF IsAddition, Empties, IsSettings, after
<1>6. CASE Empties(kind)
  <2>1. after = Done(Existing(s.pk, {}, s.settings))
    BY <1>4, <1>6, AloneThere
  <2> HIDE DEF after
  <2>2. after.index.doc = {}
    BY <2>1, ResultFields, ExistingFields
  <2> QED
    BY <1>6, <2>2 DEF IsAddition, Empties, IsSettings, after
<1>7. CASE IsSettings(kind)
  <2>1. after = Done(Existing(s.pk, s.doc, t))
    BY <1>4, <1>7, AloneThere
  <2> HIDE DEF after
  <2>2. after.index.doc = s.doc
    BY <2>1, ResultFields, ExistingFields
  <2> QED
    BY <1>7, <2>2 DEF IsAddition, Empties, IsSettings, after
<1> QED
  BY <1>5, <1>6, <1>7

\* The operations of the batch leave the document that they leave one by one.
LEMMA OperationsSame ==
  ASSUME QueueTyped, queue # <<>>, New.flow = "Continue",
         NEW last \in Nat, NEW exist \in BOOLEAN, Joined(last, exist),
         \A t \in 0 .. last : Succeeds(OneByOne[t + 1]) /\ IsThere(OneByOne[t + 1].index),
         NEW s, DocumentSame(last, Verdict[last].batch, s),
         Verdict[last].batch.type \in OperationTypes,
         NEW e, e.doc = index.doc
  PROVE  OperationsAfter(e) = OneByOne[last + 1].index.doc
<1>0. Highest(Batch.ids) = last
  BY DEF Joined
<1>1. PICK after :
        /\ OperationsAfter(e) = after[last + 1]
        /\ after[0] = e.doc
        /\ \A n \in 0 .. last : after[n + 1] =
             IF KindOf[n].type \in {"DocumentAdditionOrUpdate", "DocumentDeletion"}
             THEN DocumentAfter(after[n], n, KindOf[n], Method) ELSE after[n]
  BY <1>0, OperationsRecursion
<1>2. /\ OneByOne[0] = Done(index)
      /\ \A n \in 0 .. last : OneByOne[n + 1] = ProcessAlone(OneByOne[n].index, n, KindOf[n])
  BY <1>0, OneByOneRecursion
<1>3. Method = Verdict[last].batch.method
  BY <1>0 DEF Method
<1>4. \A n \in 0 .. last :
        /\ KindOf[n].type \in {"DocumentAdditionOrUpdate", "DocumentDeletion", "SettingsUpdate"}
        /\ IsAddition(KindOf[n]) => KindOf[n].method = Method
  BY <1>3 DEF DocumentSame
<1>5. \A n \in 0 .. last : Joinable(KindOf[n])
  <2>1. Joinable(KindOf[0])
    BY NewFacts
  <2>2. \A n \in 1 .. last : Joinable(KindOf[n])
    BY DEF Joined
  <2>3. \A n \in 0 .. last : n = 0 \/ n \in 1 .. last
    OBVIOUS
  <2> QED
    BY <2>1, <2>2, <2>3
<1>6. \A n \in 0 .. last : OneByOne[n].index.exists \in BOOLEAN
  <2> TAKE n \in 0 .. last
  <2>1. CASE n = 0
    BY <1>2, <2>1, IndexFacts, ResultFields
  <2>2. CASE n # 0
    <3>1. n - 1 \in 0 .. last /\ n - 1 + 1 = n
      BY <2>2
    <3>2. IsThere(OneByOne[n].index)
      BY <3>1
    <3> QED
      BY <3>2 DEF IsThere
  <2> QED
    BY <2>1, <2>2
<1> DEFINE S == {n \in 0 .. last + 1 : after[n] = OneByOne[n].index.doc}
<1>7. 0 \in S
  BY <1>1, <1>2, ResultFields
<1>8. ASSUME NEW n \in 0 .. last + 1 - 1, n \in S PROVE n + 1 \in S
  <2>1. n \in 0 .. last /\ n + 1 \in 0 .. last + 1
    OBVIOUS
  <2> DEFINE k == KindOf[n]
             one == OneByOne[n].index
             next == ProcessAlone(one, n, k)
  <2>2. OneByOne[n + 1] = next /\ Succeeds(next) /\ Joinable(k) /\ one.exists \in BOOLEAN
        /\ after[n] = one.doc
    BY <1>2, <1>5, <1>6, <1>8, <2>1
  <2>3. /\ IsAddition(k) => next.index.doc = DocumentAfter(one.doc, n, k, k.method)
        /\ Empties(k) => next.index.doc = {}
        /\ IsSettings(k) => next.index.doc = one.doc
    <3> HIDE DEF k, one
    <3> QED
      BY <2>2, AloneDocument
  <2>4. after[n + 1] = IF k.type \in {"DocumentAdditionOrUpdate", "DocumentDeletion"}
                       THEN DocumentAfter(after[n], n, k, Method) ELSE after[n]
    BY <1>1, <2>1
  <2>5. /\ k.type \in {"DocumentAdditionOrUpdate", "DocumentDeletion", "SettingsUpdate"}
        /\ IsAddition(k) => k.method = Method
    BY <1>4, <2>1
  <2> HIDE DEF k, one, next
  <2>6. after[n + 1] = next.index.doc
    <3>1. CASE IsAddition(k)
      BY <2>2, <2>3, <2>4, <2>5, <3>1 DEF IsAddition
    <3>2. CASE k.type = "DocumentDeletion"
      BY <2>3, <2>4, <3>2 DEF Empties, DocumentAfter
    <3>3. CASE IsSettings(k)
      BY <2>2, <2>3, <2>4, <3>3 DEF IsSettings
    <3> QED
      BY <2>5, <3>1, <3>2, <3>3 DEF IsAddition, IsSettings
  <2> QED
    BY <2>1, <2>2, <2>6
<1> HIDE DEF S
<1>9. \A n \in 0 .. last + 1 : n \in S
  <2> DEFINE m == last + 1
  <2>1. m \in Nat
    OBVIOUS
  <2>2. \A n \in 0 .. m - 1 : n \in S => n + 1 \in S
    BY <1>8
  <2>3. 0 \in S
    BY <1>7
  <2> HIDE DEF m
  <2>4. \A n \in 0 .. m : n \in S
    BY <2>1, <2>2, <2>3, UpTo
  <2> QED
    BY <2>4 DEF m
<1>10. last + 1 \in 0 .. last + 1
  OBVIOUS
<1> QED
  BY <1>1, <1>9, <1>10 DEF S

\* The outcome of the batch against the last of its tasks.
SameOutcome(together, alone) ==
  /\ Succeeds(together)
  /\ (IsThere(together.index) /\ IsThere(alone.index)) \/ together.index = alone.index
  /\ together.index.doc = alone.index.doc
  /\ together.index.settings = alone.index.settings

\* A batch that its last task leaves open.
LEMMA OpenOutcome ==
  ASSUME QueueTyped, queue # <<>>, New.flow = "Continue", AccumulatedKeysMatch,
         NEW last \in Nat, NEW exist \in BOOLEAN, Joined(last, exist), exist,
         Verdict[last].flow = "Continue"
  PROVE  /\ \A t \in 0 .. last : Succeeds(OneByOne[t + 1])
         /\ SameOutcome(ProcessTogether(index), OneByOne[last + 1])
         /\ (\A t \in 0 .. last : KindOf[t].type # "DocumentClear") =>
              ProcessTogether(index).index.pk = OneByOne[last + 1].index.pk
<1> DEFINE b == Verdict[last].batch
           s == OneByOne[last + 1].index
           e == Existing(index.pk, index.doc, index.settings)
           together == ProcessTogether(index)
<1>1. \A t \in 0 .. last : Verdict[t].flow = "Continue"
  <2>1. \A t \in 0 .. last : t = last \/ t \in 0 .. last - 1
    OBVIOUS
  <2> QED
    BY <2>1, JoinedStep
<1>2. \A t \in 0 .. last :
        Succeeds(OneByOne[t + 1]) /\ Same(t, Verdict[t].batch, OneByOne[t + 1].index)
  BY <1>1, JoinedSame
<1>3. Same(last, b, s) /\ b \in OpenBatches /\ IsThere(s)
  <2>1. last \in 0 .. last
    OBVIOUS
  <2> QED
    BY <1>2, <2>1 DEF Same
<1>4. \A t \in 0 .. last : Succeeds(OneByOne[t + 1]) /\ IsThere(OneByOne[t + 1].index)
  BY <1>2 DEF Same
<1>5. Batch.ids = 0 .. last /\ Batch.type = b.type /\ last \in TaskIds
  <2>1. last \in Uids
    BY DEF Joined
  <2> QED
    BY <2>1, QueueFacts DEF Joined
<1>6. index.exists \/ Batch.create
  BY DEF Joined, IndexExist
<1>7. together = ApplyIndexOperation(e)
  <2>1. Batch.type \notin Alone /\ Batch.type # "IndexDeletion"
    BY <1>3, <1>5 DEF OpenBatches, OperationTypes, ClearTypes, Alone
  <2> QED
    BY <1>6, <2>1, IndexFacts DEF ProcessTogether, Existing
<1>8. e.pk = index.pk /\ e.doc = index.doc /\ e.settings = index.settings
  BY ExistingFields
<1>9. SettingsSame(last, s) /\ DocumentSame(last, b, s) /\ KeySame(last, b, s)
  BY <1>3 DEF Same
<1> HIDE DEF b, s, e, together
<1>10. SettingsAfter(e) = s.settings
  BY <1>5, <1>8, <1>9, SettingsAfterSame
<1>11. ASSUME NEW x, together = Done(x), IsThere(x), x.doc = s.doc, x.settings = s.settings,
              x.pk = s.pk \/ \E t \in 0 .. last : KindOf[t].type = "DocumentClear"
       PROVE  /\ SameOutcome(together, OneByOne[last + 1])
              /\ (\A t \in 0 .. last : KindOf[t].type # "DocumentClear") =>
                   together.index.pk = s.pk
  <2>1. Succeeds(together) /\ together.index = x
    BY <1>11, ResultFields
  <2> QED
    BY <1>3, <1>11, <2>1 DEF SameOutcome, s
<1>12. CASE b.type \in ClearTypes
  <2> DEFINE x == Existing(e.pk, {}, SettingsAfter(e))
  <2>1. together = Done(x)
    BY <1>5, <1>7, <1>12 DEF ApplyIndexOperation, ClearTypes, Existing
  <2>2. IsThere(x) /\ x.doc = {} /\ x.settings = SettingsAfter(e)
    BY ExistingFields
  <2>3. s.doc = {} /\ \E t \in 0 .. last : KindOf[t].type = "DocumentClear"
    BY <1>9, <1>12 DEF DocumentSame
  <2> HIDE DEF x
  <2> QED
    BY <1>2, <1>10, <1>11, <2>1, <2>2, <2>3 DEF s, together
<1>13. CASE b.type = "DocumentDeletion"
  <2> DEFINE x == Existing(e.pk, {}, e.settings)
  <2>1. together = Done(x)
    BY <1>5, <1>7, <1>13 DEF ApplyIndexOperation, Existing
  <2>2. IsThere(x) /\ x.doc = {} /\ x.settings = e.settings /\ x.pk = e.pk
    BY ExistingFields
  <2>3. s.doc = {} /\ s.pk = index.pk /\ \A u \in 0 .. last : KindOf[u].type = "DocumentDeletion"
    BY <1>9, <1>13 DEF DocumentSame, KeySame
  <2>4. s.settings = index.settings
    BY <1>9, <2>3 DEF SettingsSame, IsSettings
  <2> HIDE DEF x
  <2> QED
    BY <1>2, <1>8, <1>11, <2>1, <2>2, <2>3, <2>4 DEF s, together
<1>14. CASE b.type = "Settings"
  <2> DEFINE x == Existing(e.pk, e.doc, SettingsAfter(e))
  <2>1. together = Done(x)
    BY <1>5, <1>7, <1>14 DEF ApplyIndexOperation, Existing
  <2>2. IsThere(x) /\ x.doc = e.doc /\ x.settings = SettingsAfter(e) /\ x.pk = e.pk
    BY ExistingFields
  <2>3. s.doc = index.doc /\ s.pk = index.pk
    BY <1>9, <1>14 DEF DocumentSame, KeySame
  <2> HIDE DEF x
  <2> QED
    BY <1>2, <1>8, <1>10, <1>11, <2>1, <2>2, <2>3 DEF s, together
<1>15. CASE b.type \in OperationTypes
  <2>1. PICK a \in 0 .. last : /\ FirstAddition(a)
                               /\ s.pk = KeyAfter(index, KindOf[a].pk)
                               /\ ~KeyRefused(index, KindOf[a].pk)
    BY <1>9, <1>15 DEF KeySame
  <2>2. BatchKey = KindOf[a].pk
    BY <1>5, <2>1, BatchKeySame
  <2>3. ~KeyRefused(e, BatchKey) /\ KeyAfter(e, BatchKey) = s.pk
    BY <1>8, <2>1, <2>2 DEF KeyRefused, KeyAfter
  <2>4. OperationsAfter(e) = s.doc
    BY <1>4, <1>8, <1>9, <1>15, OperationsSame DEF b, s
  <2> DEFINE x == Existing(KeyAfter(e, BatchKey), OperationsAfter(e), SettingsAfter(e))
  <2>5. together = Done(x)
    BY <1>5, <1>7, <1>15, <2>3 DEF ApplyIndexOperation, OperationTypes, Existing
  <2>6. IsThere(x) /\ x.doc = OperationsAfter(e) /\ x.settings = SettingsAfter(e)
        /\ x.pk = KeyAfter(e, BatchKey)
    BY ExistingFields
  <2> HIDE DEF x
  <2> QED
    BY <1>2, <1>10, <1>11, <2>3, <2>4, <2>5, <2>6 DEF s, together
<1> QED
  BY <1>3, <1>12, <1>13, <1>14, <1>15 DEF OpenBatches

\* A batch that an index deletion closes.
LEMMA ClosedOutcome ==
  ASSUME QueueTyped, queue # <<>>, New.flow = "Continue", AccumulatedKeysMatch,
         NEW last \in Nat, NEW exist \in BOOLEAN, Joined(last, exist), exist,
         Verdict[last].flow # "Continue"
  PROVE  /\ \A t \in 0 .. last : Succeeds(OneByOne[t + 1])
         /\ ProcessTogether(index) = OneByOne[last + 1]
         /\ Succeeds(ProcessTogether(index))
<1> DEFINE before == last - 1
           k == KindOf[last]
           s == OneByOne[last].index
<1>1. last # 0
  BY DEF Joined
<1>2. before \in 0 .. last - 1 /\ before + 1 = last
  BY <1>1
<1>4. \A t \in 0 .. last - 1 :
        Succeeds(OneByOne[t + 1]) /\ Same(t, Verdict[t].batch, OneByOne[t + 1].index)
  <2>1. \A t \in 0 .. last - 1 : t \in 0 .. last
    OBVIOUS
  <2>2. \A t \in 0 .. last - 1 : Verdict[t].flow = "Continue"
    BY JoinedStep
  <2> QED
    BY <2>1, <2>2, JoinedSame
<1>5. Verdict[before].batch \in OpenBatches /\ IsThere(s)
  <2> HIDE DEF before
  <2>1. Same(before, Verdict[before].batch, OneByOne[before + 1].index)
    BY <1>2, <1>4
  <2> QED
    BY <1>2, <2>1 DEF Same
<1>6. Joinable(k) /\ k.type = "IndexDeletion" /\ Verdict[last].batch.type = "IndexDeletion"
  BY <1>1, <1>5, ClosingTask
<1>7. OneByOne[last + 1] = Done(NoIndex)
  <2>1. Highest(Batch.ids) = last /\ last \in 0 .. last
    BY DEF Joined
  <2>2. OneByOne[last + 1] = ProcessAlone(s, last, k)
    BY <2>1, OneByOneRecursion
  <2> HIDE DEF k, s
  <2> QED
    BY <1>5, <1>6, <2>2, AloneThere
<1>8. ProcessTogether(index) = Done(NoIndex)
  <2>1. Batch.type = "IndexDeletion" /\ (index.exists \/ Batch.create)
    BY <1>6 DEF Joined, IndexExist
  <2>2. Batch.type \notin Alone
    BY <2>1 DEF Alone
  <2> QED
    BY <2>1, <2>2, IndexFacts DEF ProcessTogether
<1>9. \A t \in 0 .. last : t = last \/ t \in 0 .. last - 1
  OBVIOUS
<1>10. Succeeds(Done(NoIndex))
  BY ResultFields
<1> QED
  BY <1>4, <1>7, <1>8, <1>9, <1>10

\* A first task that closes its batch is processed alone.
LEMMA FirstCloses ==
  ASSUME QueueTyped, queue # <<>>, New.flow # "Continue"
  PROVE  Batch.ids = 0 .. 0 /\ Highest(Batch.ids) = 0 /\ ProcessTogether(index) = OneByOne[0 + 1]
<1> DEFINE k == KindOf[0]
<1>1. Lowest(Uids) = 0 /\ k \in KindWithContent /\ k.type \in IndexKinds
  BY QueueFacts
<1>2. /\ Batch.ids = {0} /\ Batch.type = New.batch.type
      /\ Batch.create <=> MustCreateIndex(k)
  BY <1>1 DEF Batch, Autobatch, New
<1>3. Batch.ids = 0 .. 0
  BY <1>2
<1>4. Highest(Batch.ids) = 0
  BY <1>3, LastHighest
<1>5. OneByOne[0 + 1] = ProcessAlone(index, 0, k)
  <2>1. OneByOne[0] = Done(index) /\ OneByOne[0 + 1] = ProcessAlone(OneByOne[0].index, 0, k)
    BY <1>4, OneByOneRecursion
  <2> QED
    BY <2>1, ResultFields
<1>6. New = BatchKindNew(k, index.pk)
  BY DEF New
<1> HIDE DEF k
<1>7. CASE k.type \in Alone
  <2>1. AutobatchKind(k).type = k.type
    BY <1>7 DEF AutobatchKind, Alone
  <2>2. New = Absorb(AutobatchKind(k))
    BY <1>6, <1>7, <2>1 DEF BatchKindNew, Alone
  <2>3. New.batch.type = k.type
    BY <2>1, <2>2 DEF Absorb
  <2> QED
    BY <1>2, <1>3, <1>4, <1>5, <1>7, <2>3 DEF ProcessTogether, k
<1>8. CASE k.type = "IndexDeletion"
  <2>1. AutobatchKind(k).type = k.type
    BY <1>8 DEF AutobatchKind
  <2>2. New = Absorb(AutobatchKind(k))
    BY <1>6, <1>8, <2>1 DEF BatchKindNew
  <2>3. Batch.type = "IndexDeletion" /\ Batch.type \notin Alone
    BY <1>2, <1>8, <2>1, <2>2 DEF Absorb, Alone
  <2>4. Joinable(k)
    BY <1>1, <1>8 DEF Joinable, Alone
  <2>5. ~MustCreateIndex(k)
    BY <1>8, <2>4, MustCreateFacts DEF IsAddition, IsSettings
  <2>6. CASE IsThere(index)
    <3>1. ProcessTogether(index) = Done(NoIndex)
      BY <2>3, <2>6, IndexFacts DEF ProcessTogether
    <3> QED
      BY <1>3, <1>4, <1>5, <1>8, <2>4, <2>6, <3>1, AloneThere
  <2>7. CASE index = NoIndex /\ ~IsThere(index)
    <3>1. ProcessTogether(index) = Failed(NoIndex)
      BY <1>2, <2>3, <2>5, <2>7, IndexFacts DEF ProcessTogether
    <3> QED
      BY <1>3, <1>4, <1>5, <2>4, <2>5, <2>7, <3>1, AloneMissing
  <2> QED
    BY <2>6, <2>7, IndexFacts
<1>9. CASE IsAddition(k)
  <2>1. Joinable(k)
    BY <1>1, <1>9 DEF Joinable, Alone, IsAddition
  <2>2. AutobatchKind(k) = [type |-> "DocumentImport", method |-> k.method,
                            create |-> {k.create}, pk |-> {k.pk}]
    BY <1>9, <2>1, AutobatchKindFacts DEF IsAddition
  <2>3. New = IF index.pk = None \/ k.pk \in {None, index.pk}
              THEN Continue(BatchOf("DocumentOperation", AutobatchKind(k)))
              ELSE Absorb(BatchOf("DocumentOperation", AutobatchKind(k)))
    BY <1>6, <2>2 DEF BatchKindNew
  <2>4. /\ index.pk # None /\ k.pk \notin {None, index.pk}
        /\ New = Absorb(BatchOf("DocumentOperation", AutobatchKind(k)))
    BY <2>3 DEF Continue
  <2>5. New.batch.type = "DocumentOperation"
    <3>1. New.batch = BatchOf("DocumentOperation", AutobatchKind(k))
      BY <2>4 DEF Absorb
    <3>2. BatchOf("DocumentOperation", AutobatchKind(k)) =
            [type |-> "DocumentOperation", method |-> k.method,
             create |-> {k.create}, pk |-> {k.pk}]
      BY <2>2, ImportBatch
    <3> QED
      BY <3>1, <3>2
  <2>6. KeyRefused(index, k.pk)
    BY <2>4 DEF KeyRefused
  <2>7. index = Existing(index.pk, index.doc, index.settings) /\ IsThere(index)
    <3>1. NoIndex.pk = None
      BY DEF NoIndex, State
    <3>2. index # NoIndex
      BY <2>4, <3>1
    <3> QED
      BY <3>2, StartIndexesAssumption, IndexFacts DEF QueueTyped, Existing
  <2>8. ProcessAlone(index, 0, k) = Failed(index)
    BY <1>9, <2>6, <2>7, IndexFacts DEF ProcessAlone, IsAddition
  <2>9. BatchKey = k.pk
    <3>1. FirstAddition(0)
      BY <1>9 DEF FirstAddition, k
    <3> QED
      BY <1>3, <3>1, BatchKeySame DEF k
  <2>10. ApplyIndexOperation(index) = Failed(index)
    BY <1>2, <2>5, <2>6, <2>9 DEF ApplyIndexOperation
  <2>11. ProcessTogether(index) = ApplyIndexOperation(index)
    <3>1. ApplyIndexOperation(Existing(index.pk, index.doc, index.settings))
            = ApplyIndexOperation(index)
      BY <2>7, Zenon
    <3> QED
      BY <1>2, <2>5, <2>7, <3>1, IndexFacts DEF ProcessTogether, Existing, Alone
  <2> QED
    BY <1>3, <1>4, <1>5, <2>8, <2>10, <2>11
<1>10. k.type \notin {"DocumentDeletion", "DocumentClear", "SettingsUpdate"}
  <2>1. k.type \in {"DocumentDeletion", "DocumentClear"} => AutobatchKind(k).type = k.type
    BY DEF AutobatchKind
  <2>2. k.type = "SettingsUpdate" => AutobatchKind(k).type = "Settings"
    BY DEF AutobatchKind
  <2>3. k.type \in {"DocumentDeletion", "DocumentClear", "SettingsUpdate"} =>
          New = Continue(AutobatchKind(k))
    BY <1>6, <2>1, <2>2 DEF BatchKindNew
  <2> QED
    BY <2>3 DEF Continue
<1> QED
  BY <1>1, <1>7, <1>8, <1>9, <1>10 DEF IndexKinds, Alone, IsAddition

-----------------------------------------------------------------------------
(* The theorems.                                                            *)

\* In one state of the queue: the batch does what its tasks do one by one.
LEMMA BatchSame ==
  ASSUME QueueTyped, AccumulatedKeysMatch
  PROVE  SameAsOneByOne
<1> SUFFICES ASSUME queue # <<>> PROVE SameAsOneByOne
  BY DEF SameAsOneByOne, SameFate, SameIndex, SamePrimaryKey
<1> DEFINE together == ProcessTogether(index)
<1>1. ASSUME NEW last \in Nat, Batch.ids = 0 .. last, Highest(Batch.ids) = last,
             \A t \in 0 .. last : OneByOne[t + 1].ok = together.ok,
             together.index.exists = OneByOne[last + 1].index.exists,
             together.index.doc = OneByOne[last + 1].index.doc,
             together.index.settings = OneByOne[last + 1].index.settings,
             (\A t \in 0 .. last : KindOf[t].type # "DocumentClear") =>
               together.index.pk = OneByOne[last + 1].index.pk
      PROVE  SameAsOneByOne
  BY <1>1 DEF SameAsOneByOne, SameFate, SameIndex, SamePrimaryKey
<1>2. CASE New.flow # "Continue"
  <2>1. Batch.ids = 0 .. 0 /\ Highest(Batch.ids) = 0 /\ together = OneByOne[0 + 1]
    BY <1>2, FirstCloses
  <2>2. \A t \in 0 .. 0 : t = 0
    OBVIOUS
  <2> HIDE DEF together
  <2> QED
    BY <1>1, <2>1, <2>2 DEF together
<1>3. CASE New.flow = "Continue"
  <2>1. PICK last \in Nat, exist \in BOOLEAN : Joined(last, exist)
    BY <1>3, JoinedBatch
  <2>2. Batch.ids = 0 .. last /\ Highest(Batch.ids) = last /\ last \in 0 .. last
    BY <2>1 DEF Joined
  <2>3. CASE ~exist
    <3>1. together = Failed(NoIndex) /\ \A t \in 0 .. last : OneByOne[t + 1] = Failed(NoIndex)
      BY <1>3, <2>1, <2>3, MissingSame
    <3> HIDE DEF together
    <3> QED
      BY <1>1, <2>2, <3>1
  <2>4. CASE exist /\ Verdict[last].flow = "Continue"
    <3>1. /\ \A t \in 0 .. last : Succeeds(OneByOne[t + 1])
          /\ SameOutcome(together, OneByOne[last + 1])
          /\ (\A t \in 0 .. last : KindOf[t].type # "DocumentClear") =>
               together.index.pk = OneByOne[last + 1].index.pk
      BY <1>3, <2>1, <2>4, OpenOutcome
    <3> HIDE DEF together
    <3>2. \A t \in 0 .. last : OneByOne[t + 1].ok = together.ok
      BY <3>1 DEF SameOutcome, Succeeds
    <3>3. together.index.exists = OneByOne[last + 1].index.exists
      <4>1. CASE together.index = OneByOne[last + 1].index
        BY <4>1
      <4>2. CASE IsThere(together.index) /\ IsThere(OneByOne[last + 1].index)
        BY <4>2 DEF IsThere
      <4> QED
        BY <3>1, <4>1, <4>2 DEF SameOutcome
    <3> QED
      BY <1>1, <2>2, <3>1, <3>2, <3>3 DEF SameOutcome
  <2>5. CASE exist /\ Verdict[last].flow # "Continue"
    <3>1. /\ \A t \in 0 .. last : Succeeds(OneByOne[t + 1])
          /\ together = OneByOne[last + 1] /\ Succeeds(together)
      BY <1>3, <2>1, <2>5, ClosedOutcome
    <3> HIDE DEF together
    <3>2. \A t \in 0 .. last : OneByOne[t + 1].ok = together.ok
      BY <3>1 DEF Succeeds
    <3> QED
      BY <1>1, <2>2, <3>1, <3>2
  <2> QED
    BY <2>3, <2>4, <2>5
<1> QED
  BY <1>2, <1>3

\* The queue holds tasks of TaskKinds and the index is one of the starting indexes.
LEMMA QueueAlwaysTyped == Spec => []QueueTyped
<1>1. Init => QueueTyped
  BY BoundsAssumption DEF Init, QueueTyped
<1>2. QueueTyped /\ [Next]_vars => QueueTyped'
  <2> SUFFICES ASSUME QueueTyped, [Next]_vars PROVE QueueTyped'
    OBVIOUS
  <2>1. ASSUME NEW kind \in TaskKinds, Enqueue(kind) PROVE QueueTyped'
    BY <2>1, BoundsAssumption DEF Enqueue, QueueTyped
  <2>2. CASE UNCHANGED vars
    BY <2>2 DEF vars, QueueTyped
  <2> QED
    BY <2>1, <2>2 DEF Next
<1> QED
  BY <1>1, <1>2, PTL DEF Spec

\* Whatever is enqueued, on whatever index: a batch (autobatch, apply_index_operation) gives
\* its tasks and the index the fate they would have one by one, provided that accumulate
\* keeps its own rule, that the key of an index is the only one its additions may name.
THEOREM BatchSameAsOneByOne == Spec => [](AccumulatedKeysMatch => SameAsOneByOne)
<1>1. QueueTyped => (AccumulatedKeysMatch => SameAsOneByOne)
  BY BatchSame
<1> QED
  BY <1>1, QueueAlwaysTyped, PTL

\* Where every addition leaves the key open or names that of the index, accumulate has no
\* rule to break (BatchKind::accumulate), and batching changes nothing at all.
THEOREM SameWhereKeysMatch ==
  ASSUME \A kind \in TaskKinds, s \in StartIndexes :
           kind.type = "DocumentAdditionOrUpdate" /\ s.pk # None => kind.pk \in {None, s.pk}
  PROVE  Spec => []SameAsOneByOne
<1>1. QueueTyped => SameAsOneByOne
  <2> SUFFICES ASSUME QueueTyped PROVE SameAsOneByOne
    OBVIOUS
  <2>1. AccumulatedKeysMatch
    <3> SUFFICES ASSUME queue # <<>>, NEW t \in AdditionsOf(Batch.ids) \ {0}, index.pk # None
                 PROVE  KindOf[t].pk \in {None, index.pk}
      BY DEF AccumulatedKeysMatch
    <3>1. t \in Batch.ids /\ KindOf[t].type = "DocumentAdditionOrUpdate"
      BY DEF AdditionsOf
    <3>2. Batch.ids \subseteq Uids
      <4>1. CASE New.flow = "Continue"
        BY <4>1, JoinedBatch DEF Joined
      <4>2. CASE New.flow # "Continue"
        BY <4>2, FirstCloses, QueueFacts
      <4> QED
        BY <4>1, <4>2
    <3>3. KindOf[t] \in TaskKinds
      BY <3>1, <3>2 DEF QueueTyped, Uids, KindOf
    <3> QED
      BY <3>1, <3>3 DEF QueueTyped
  <2> QED
    BY <2>1, BatchSame
<1> QED
  BY <1>1, QueueAlwaysTyped, PTL
=============================================================================
