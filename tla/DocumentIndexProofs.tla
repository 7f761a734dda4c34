------------------------- MODULE DocumentIndexProofs -------------------------
(***************************************************************************)
(* An index holds exactly the documents that its operations ask for, and   *)
(* its databases file exactly these, for any number of documents, fields,  *)
(* settings and operations in a batch.                                     *)
(***************************************************************************)
EXTENDS DocumentIndex, TLAPS, FiniteSetTheorems, WellFoundedInduction

-----------------------------------------------------------------------------
(* Naturals, functions, recursion up to a bound.                             *)

\* A set of naturals has a least element: the next id that is available.
LEMMA LeastExists ==
  ASSUME NEW T \in SUBSET Nat, T # {}
  PROVE  \E t \in T : \A u \in T : t <= u
<1> DEFINE R == OpToRel(<, Nat)
<1>1. \E t \in T : \A u \in T : <<u, t>> \notin R
  BY NatLessThanWellFounded, WFMin
<1>2. \A t, u \in Nat : u < t => <<u, t>> \in R
  BY DEF OpToRel
<1> HIDE DEF R
<1>3. PICK t \in T : \A u \in T : <<u, t>> \notin R
  BY <1>1
<1>4. \A u \in T : u \in Nat /\ t \in Nat /\ ~(u < t)
  BY <1>2, <1>3
<1> QED
  BY <1>3, <1>4

\* A set with 0 that is closed under successors below n holds 0 .. n.
LEMMA UpTo ==
  ASSUME NEW n \in Nat, NEW S, 0 \in S, \A k \in 0 .. n - 1 : k \in S => k + 1 \in S
  PROVE  \A k \in 0 .. n : k \in S
<1> DEFINE out == {k \in 0 .. n : k \notin S}
<1>1. SUFFICES ASSUME out # {} PROVE FALSE
  OBVIOUS
<1>2. PICK k \in out : \A j \in out : k <= j
  <2>1. out \subseteq Nat
    OBVIOUS
  <2> HIDE DEF out
  <2> QED
    BY <1>1, <2>1, LeastExists
<1>3. k \in 1 .. n
  BY <1>2
<1>4. k - 1 \in 0 .. n - 1 /\ k - 1 \in S
  BY <1>2, <1>3
<1>5. k - 1 + 1 = k
  BY <1>3
<1> QED
  BY <1>2, <1>4, <1>5

IsFunction(f) == f = [x \in DOMAIN f |-> f[x]]

\* Two functions are equal that agree on one domain.
LEMMA SameFunction ==
  ASSUME NEW f, NEW g, IsFunction(f), IsFunction(g), DOMAIN f = DOMAIN g,
         \A x \in DOMAIN f : f[x] = g[x]
  PROVE  f = g
  BY DEF IsFunction

\* A function over another one.
LEMMA OverFacts ==
  ASSUME NEW f, NEW g
  PROVE  /\ IsFunction(Over(f, g)) /\ DOMAIN Over(f, g) = DOMAIN f \cup DOMAIN g
         /\ \A x \in DOMAIN f : Over(f, g)[x] = f[x]
         /\ \A x \in DOMAIN g \ DOMAIN f : Over(f, g)[x] = g[x]
  BY DEF Over, IsFunction

\* One entry.
LEMMA EntryFacts ==
  ASSUME NEW x, NEW value
  PROVE  /\ IsFunction(Entry(x, value)) /\ DOMAIN Entry(x, value) = {x}
         /\ Entry(x, value)[x] = value
  BY DEF Entry, IsFunction

\* Nothing is a function, and the only one without arguments.
LEMMA NothingFacts ==
  IsFunction(<<>>) /\ DOMAIN <<>> = {} /\ \A f : DOMAIN f = {} /\ IsFunction(f) => f = <<>>
<1> DEFINE e == <<>>
<1>1. e \in Seq({}) /\ Len(e) = 0
  OBVIOUS
<1> HIDE DEF e
<1>2. DOMAIN e = {} /\ e = [x \in {} |-> x]
  BY <1>1
<1>3. IsFunction(e) /\ DOMAIN e = {} /\ \A f : DOMAIN f = {} /\ IsFunction(f) => f = e
  BY <1>2 DEF IsFunction
<1> QED
  BY <1>3 DEF e

\* A function over nothing, and nothing over a function.
LEMMA OverNothing ==
  ASSUME NEW f, IsFunction(f), NEW e, DOMAIN e = {}
  PROVE  Over(f, e) = f /\ Over(e, f) = f
  BY DEF IsFunction, Over

\* A restriction.
LEMMA RestrictFacts ==
  ASSUME NEW f, NEW S
  PROVE  /\ IsFunction(Restrict(f, S)) /\ DOMAIN Restrict(f, S) = S
         /\ \A x \in S : Restrict(f, S)[x] = f[x]
  BY DEF Restrict, IsFunction

-----------------------------------------------------------------------------
(* The fields of an index and the ids of their names.                        *)

FieldNames == Range(FieldOrder) \cup UNION {Range(s.searchable) : s \in SettingsChoices}

\* A map of names to ids: no name has two.
Distinct(names) ==
  /\ names \in Seq(FieldNames)
  /\ \A i, j \in 1 .. Len(names) : names[i] = names[j] => i = j

\* A map that gives the names of another one the same ids.
Extends(longer, names) ==
  /\ Len(names) <= Len(longer)
  /\ \A i \in 1 .. Len(names) : longer[i] = names[i]

\* The names of a map.
LEMMA RangeOfNames ==
  ASSUME NEW names \in Seq(FieldNames), NEW f
  PROVE  f \in Range(names) <=> \E i \in 1 .. Len(names) : names[i] = f
  BY DEF Range

\* FieldsIdsMap::insert gives a new name the next id, and leaves the others alone.
LEMMA InsertFieldFacts ==
  ASSUME NEW names, Distinct(names), NEW name \in FieldNames
  PROVE  LET r == InsertField(names, name)
         IN Distinct(r) /\ Extends(r, names) /\ Range(r) = Range(names) \cup {name}
<1> DEFINE r == InsertField(names, name)
<1>1. CASE name \in Range(names)
  BY <1>1 DEF InsertField, Distinct, Extends
<1>2. CASE name \notin Range(names)
  <2>1. r = Append(names, name)
    BY <1>2 DEF InsertField
  <2>2. r \in Seq(FieldNames) /\ Len(r) = Len(names) + 1 /\ r[Len(names) + 1] = name
    BY <2>1 DEF Distinct
  <2>3. \A i \in 1 .. Len(names) : r[i] = names[i] /\ names[i] # name
    BY <1>2, <2>1 DEF Distinct, Range
  <2>4. Len(names) \in Nat
    BY DEF Distinct
  <2> HIDE DEF r
  <2>5. Extends(r, names)
    BY <2>2, <2>3, <2>4 DEF Extends
  <2>6. Distinct(r)
    BY <2>2, <2>3, <2>4 DEF Distinct
  <2>7. Range(r) = Range(names) \cup {name}
    <3>1. \A f : f \in Range(r) <=> \E i \in 1 .. Len(r) : r[i] = f
      BY <2>2, RangeOfNames
    <3>2. \A f : f \in Range(names) <=> \E i \in 1 .. Len(names) : names[i] = f
      BY RangeOfNames DEF Distinct
    <3>3. ASSUME NEW f PROVE f \in Range(r) <=> f \in Range(names) \/ f = name
      BY <2>2, <2>3, <2>4, <3>1, <3>2
    <3> QED
      BY <3>3
  <2> QED
    BY <2>5, <2>6, <2>7 DEF r
<1> QED
  BY <1>1, <1>2

\* A map that extends a map that extends a third one.
LEMMA ExtendsFacts ==
  ASSUME NEW a, NEW b, NEW c, Distinct(a), Distinct(b), Distinct(c)
  PROVE  /\ Extends(a, a)
         /\ Extends(c, b) /\ Extends(b, a) => Extends(c, a)
         /\ Extends(b, a) => Range(a) \subseteq Range(b)
<1>1. Len(a) \in Nat /\ Len(b) \in Nat /\ Len(c) \in Nat
  BY DEF Distinct
<1>2. Extends(a, a)
  BY <1>1 DEF Extends
<1>3. Extends(c, b) /\ Extends(b, a) => Extends(c, a)
  BY <1>1 DEF Extends
<1>4. ASSUME Extends(b, a), NEW f \in Range(a) PROVE f \in Range(b)
  <2>1. PICK i \in 1 .. Len(a) : a[i] = f
    BY <1>4, RangeOfNames DEF Distinct
  <2>2. i \in 1 .. Len(b) /\ b[i] = f
    BY <1>1, <1>4, <2>1 DEF Extends
  <2> QED
    BY <2>2, RangeOfNames DEF Distinct
<1> QED
  BY <1>2, <1>3, <1>4

\* InsertFields goes through its list from the map it is given.
LEMMA InsertFieldsRecursion ==
  ASSUME NEW names, NEW list, NEW wanted, Len(list) \in Nat
  PROVE  \E after :
           /\ InsertFields(names, list, wanted) = after[Len(list)]
           /\ after[0] = names
           /\ \A n \in 1 .. Len(list) :
                after[n] = IF list[n] \in wanted THEN InsertField(after[n - 1], list[n])
                           ELSE after[n - 1]
<1> DEFINE Step(before, n) == IF list[n] \in wanted THEN InsertField(before, list[n]) ELSE before
           last == Len(list)
           Given == {n \in 0 .. last : \E g : g = [k \in 0 .. n |->
                       IF k = 0 THEN names ELSE Step(g[k - 1], k)]}
           after == CHOOSE g : g = [n \in 0 .. last |->
                       IF n = 0 THEN names ELSE Step(g[n - 1], n)]
<1>1. InsertFields(names, list, wanted) = after[last]
  BY Zenon DEF InsertFields
<1> HIDE DEF Step
<1>2. last \in Given
  <2>1. 0 \in Given
    <3> DEFINE g == [k \in 0 .. 0 |-> names]
    <3>1. g = [k \in 0 .. 0 |-> IF k = 0 THEN names ELSE Step(g[k - 1], k)]
      OBVIOUS
    <3> HIDE DEF g
    <3> QED
      BY <3>1
  <2>2. ASSUME NEW n \in 0 .. last - 1, n \in Given PROVE n + 1 \in Given
    <3>1. PICK g : g = [k \in 0 .. n |-> IF k = 0 THEN names ELSE Step(g[k - 1], k)]
      BY <2>2
    <3> DEFINE h == [k \in 0 .. n + 1 |-> IF k = n + 1 THEN Step(g[n], n + 1) ELSE g[k]]
    <3>2. \A k \in 0 .. n + 1 : h[k] = IF k = 0 THEN names ELSE Step(h[k - 1], k)
      <4> TAKE k \in 0 .. n + 1
      <4>1. CASE k = n + 1
        <5>1. h[k] = Step(g[n], n + 1) /\ h[n] = g[n] /\ k - 1 = n /\ k # 0
          BY <4>1
        <5> QED
          BY <4>1, <5>1
      <4>2. CASE k \in 1 .. n
        <5>1. h[k] = g[k] /\ h[k - 1] = g[k - 1] /\ k # 0
          BY <4>2
        <5>2. g[k] = Step(g[k - 1], k)
          BY <3>1, <4>2
        <5> QED
          BY <5>1, <5>2
      <4>3. CASE k = 0
        BY <3>1, <4>3
      <4> QED
        BY <4>1, <4>2, <4>3
    <3>3. h = [k \in 0 .. n + 1 |-> IF k = 0 THEN names ELSE Step(h[k - 1], k)]
      BY <3>2
    <3>4. n + 1 \in 0 .. last
      OBVIOUS
    <3> HIDE DEF h
    <3> QED
      BY <3>3, <3>4
  <2> HIDE DEF Given
  <2>3. \A k \in 0 .. last : k \in Given
    BY <2>1, <2>2, UpTo
  <2> QED
    BY <2>3
<1>3. \E g : g = [n \in 0 .. last |-> IF n = 0 THEN names ELSE Step(g[n - 1], n)]
  BY <1>2
<1>4. after = [n \in 0 .. last |-> IF n = 0 THEN names ELSE Step(after[n - 1], n)]
  BY <1>3, Zenon
<1> HIDE DEF after
<1>5. after[0] = names
  BY <1>4
<1>6. \A n \in 1 .. last : after[n] = Step(after[n - 1], n)
  <2>0. \A k \in 0 .. last : k # 0 => after[k] = Step(after[k - 1], k)
    <3> TAKE k \in 0 .. last
    <3> HAVE k # 0
    <3> QED
      BY <1>4, Zenon
  <2> TAKE n \in 1 .. last
  <2>1. n \in 0 .. last /\ n # 0
    OBVIOUS
  <2> QED
    BY <2>0, <2>1
<1> QED
  BY <1>1, <1>5, <1>6 DEF Step

\* The map after InsertFields: the old ids stay, the wanted names of the list have one.
LEMMA InsertFieldsFacts ==
  ASSUME NEW names, Distinct(names), NEW list \in Seq(FieldNames), NEW wanted
  PROVE  LET r == InsertFields(names, list, wanted)
         IN /\ Distinct(r) /\ Extends(r, names)
            /\ Range(names) \cup (Range(list) \cap wanted) \subseteq Range(r)
<1>1. Len(list) \in Nat
  OBVIOUS
<1>2. PICK after :
         /\ InsertFields(names, list, wanted) = after[Len(list)]
         /\ after[0] = names
         /\ \A n \in 1 .. Len(list) :
              after[n] = IF list[n] \in wanted THEN InsertField(after[n - 1], list[n])
                         ELSE after[n - 1]
  BY <1>1, InsertFieldsRecursion
<1> DEFINE Right(n) == /\ Distinct(after[n]) /\ Extends(after[n], names)
                       /\ \A i \in 1 .. n : list[i] \in wanted => list[i] \in Range(after[n])
           S == {n \in 0 .. Len(list) : Right(n)}
<1>3. 0 \in S
  BY <1>1, <1>2, ExtendsFacts
<1>4. ASSUME NEW k \in 0 .. Len(list) - 1, k \in S PROVE k + 1 \in S
  <2>1. /\ k + 1 \in 1 .. Len(list) /\ k + 1 \in 0 .. Len(list) /\ k + 1 - 1 = k
        /\ \A i \in 1 .. k + 1 : i \in 1 .. k \/ i = k + 1
    BY <1>1
  <2>2. Right(k) /\ list[k + 1] \in FieldNames
    BY <1>4, <2>1
  <2>3. after[k + 1] = IF list[k + 1] \in wanted THEN InsertField(after[k], list[k + 1])
                       ELSE after[k]
    BY <1>2, <2>1
  <2>4. CASE list[k + 1] \notin wanted
    <3>1. after[k + 1] = after[k]
      BY <2>3, <2>4
    <3> QED
      BY <2>1, <2>2, <2>4, <3>1
  <2>5. CASE list[k + 1] \in wanted
    <3>1. /\ Distinct(after[k + 1]) /\ Extends(after[k + 1], after[k])
          /\ Range(after[k + 1]) = Range(after[k]) \cup {list[k + 1]}
      BY <2>2, <2>3, <2>5, InsertFieldFacts
    <3>2. Extends(after[k + 1], names)
      BY <2>2, <3>1, ExtendsFacts
    <3> QED
      BY <2>1, <2>2, <3>1, <3>2
  <2> QED
    BY <2>4, <2>5
<1>5. Len(list) \in S
  <2> HIDE DEF S
  <2>1. \A k \in 0 .. Len(list) : k \in S
    BY <1>1, <1>3, <1>4, UpTo
  <2> QED
    BY <1>1, <2>1
<1>6. Right(Len(list))
  BY <1>5
<1>7. Range(names) \subseteq Range(after[Len(list)])
  BY <1>6, ExtendsFacts
<1>8. Range(list) \cap wanted \subseteq Range(after[Len(list)])
  BY <1>6, RangeOfNames
<1> QED
  BY <1>2, <1>6, <1>7, <1>8

\* The id of a name.
LEMMA IdOfFacts ==
  ASSUME NEW names, Distinct(names)
  PROVE  /\ \A f \in Range(names) : IdOf(names, f) \in 1 .. Len(names) /\ names[IdOf(names, f)] = f
         /\ \A i \in 1 .. Len(names) : IdOf(names, names[i]) = i /\ names[i] \in Range(names)
<1>1. \A f : f \in Range(names) <=> \E i \in 1 .. Len(names) : names[i] = f
  BY RangeOfNames DEF Distinct
<1>2. ASSUME NEW f \in Range(names)
      PROVE  IdOf(names, f) \in 1 .. Len(names) /\ names[IdOf(names, f)] = f
  <2>1. \E i \in 1 .. Len(names) : names[i] = f
    BY <1>1
  <2> QED
    BY <2>1 DEF IdOf
<1>3. ASSUME NEW i \in 1 .. Len(names)
      PROVE  IdOf(names, names[i]) = i /\ names[i] \in Range(names)
  <2>1. names[i] \in Range(names)
    BY <1>1
  <2>2. IdOf(names, names[i]) \in 1 .. Len(names) /\ names[IdOf(names, names[i])] = names[i]
    BY <1>2, <2>1
  <2> QED
    BY <2>1, <2>2 DEF Distinct
<1> QED
  BY <1>2, <1>3

\* The value of a field.
IsValue(value) == value \in Seq(Seq(Nat))

\* A document under the ids of a map.
Encoded(obkv, names) ==
  /\ IsFunction(obkv) /\ DOMAIN obkv \subseteq 1 .. Len(names)
  /\ \A fid \in DOMAIN obkv : IsValue(obkv[fid])

\* content is the document obkv under its names.
Names(content, names, obkv) ==
  /\ IsFunction(content)
  /\ \A fid \in DOMAIN obkv : names[fid] \in DOMAIN content /\ content[names[fid]] = obkv[fid]
  /\ \A f \in DOMAIN content : f \in Range(names) /\ \E fid \in DOMAIN obkv : f = names[fid]

\* What Decode gives.
LEMMA DecodeFacts ==
  ASSUME NEW names, Distinct(names), NEW obkv, Encoded(obkv, names)
  PROVE  Names(Decode(names, obkv), names, obkv)
<1>1. \A fid \in DOMAIN obkv : IdOf(names, names[fid]) = fid /\ names[fid] \in Range(names)
  BY IdOfFacts DEF Encoded
<1> QED
  BY <1>1 DEF Decode, IsFunction, Names

\* A document under its ids, read under its names again.
LEMMA EncodeFacts ==
  ASSUME NEW names, Distinct(names), NEW content, IsFunction(content),
         DOMAIN content \subseteq Range(names), \A f \in DOMAIN content : IsValue(content[f])
  PROVE  Encoded(Encode(names, content), names) /\ Decode(names, Encode(names, content)) = content
<1> DEFINE e == Encode(names, content)
           d == Decode(names, e)
<1>1. /\ IsFunction(e) /\ \A fid \in DOMAIN e : \E f \in DOMAIN content : fid = IdOf(names, f)
      /\ \A f \in DOMAIN content : IdOf(names, f) \in DOMAIN e
  BY DEF Encode, IsFunction
<1>2. \A f \in DOMAIN content : /\ IdOf(names, f) \in DOMAIN e /\ IdOf(names, f) \in 1 .. Len(names)
                                /\ names[IdOf(names, f)] = f /\ e[IdOf(names, f)] = content[f]
  BY <1>1, IdOfFacts DEF Encode
<1>3. DOMAIN e \subseteq 1 .. Len(names)
  BY <1>1, <1>2
<1> HIDE DEF e
<1>4. Encoded(e, names)
  <2>1. \A fid \in DOMAIN e : IsValue(e[fid])
    BY <1>1, <1>2
  <2> QED
    BY <1>1, <1>3, <2>1 DEF Encoded
<1>5. Names(d, names, e)
  BY <1>4, DecodeFacts
<1> HIDE DEF d
<1>6. IsFunction(d) /\ DOMAIN d = DOMAIN content /\ \A f \in DOMAIN d : d[f] = content[f]
  <2>1. ASSUME NEW f \in DOMAIN d PROVE f \in DOMAIN content
    <3>1. PICK fid \in DOMAIN e : f = names[fid]
      BY <1>5 DEF Names
    <3>2. PICK g \in DOMAIN content : fid = IdOf(names, g)
      BY <1>1
    <3> QED
      BY <1>2, <3>1, <3>2
  <2>2. ASSUME NEW f \in DOMAIN content PROVE f \in DOMAIN d /\ d[f] = content[f]
    BY <1>2, <1>5 DEF Names
  <2> QED
    BY <1>5, <2>1, <2>2 DEF Names
<1>7. d = content
  BY <1>6, SameFunction
<1> QED
  BY <1>4, <1>7 DEF d, e

\* Names that are added do not change a document.
LEMMA DecodeExtended ==
  ASSUME NEW names, Distinct(names), NEW longer, Distinct(longer), Extends(longer, names),
         NEW obkv, Encoded(obkv, names)
  PROVE  Encoded(obkv, longer) /\ Decode(longer, obkv) = Decode(names, obkv)
<1>1. Encoded(obkv, longer) /\ \A fid \in DOMAIN obkv : longer[fid] = names[fid]
  <2>1. Len(names) \in Nat /\ Len(longer) \in Nat
    BY DEF Distinct
  <2> QED
    BY <2>1 DEF Encoded, Extends
<1> DEFINE l == Decode(longer, obkv)
           n == Decode(names, obkv)
<1>2. Names(l, longer, obkv) /\ Names(n, names, obkv)
  BY <1>1, DecodeFacts
<1> HIDE DEF l, n
<1>3. IsFunction(l) /\ IsFunction(n)
  BY <1>2 DEF Names
<1>4. DOMAIN l = DOMAIN n /\ \A f \in DOMAIN l : l[f] = n[f]
  BY <1>1, <1>2 DEF Names
<1>5. l = n
  BY <1>3, <1>4, SameFunction
<1> QED
  BY <1>1, <1>5 DEF l, n

\* A partial update is the same under ids and under names.
LEMMA DecodeOver ==
  ASSUME NEW names, Distinct(names), NEW new, Encoded(new, names), NEW old, Encoded(old, names)
  PROVE  /\ Encoded(Over(new, old), names)
         /\ Decode(names, Over(new, old)) = Over(Decode(names, new), Decode(names, old))
<1> DEFINE both == Over(new, old)
           l == Decode(names, both)
           n == Decode(names, new)
           o == Decode(names, old)
           r == Over(n, o)
<1>1. IsFunction(both) /\ DOMAIN both = DOMAIN new \cup DOMAIN old
  BY DEF Over, IsFunction
<1>3. /\ \A fid \in DOMAIN new : both[fid] = new[fid]
      /\ \A fid \in DOMAIN old \ DOMAIN new : both[fid] = old[fid]
  BY DEF Over
<1>2. Encoded(both, names)
  <2> HIDE DEF both
  <2> QED
    BY <1>1, <1>3 DEF Encoded
<1>4. Names(n, names, new) /\ Names(o, names, old) /\ Names(l, names, both)
  BY <1>2, DecodeFacts
<1> HIDE DEF both, n, o, l
<1>5. IsFunction(r) /\ DOMAIN r = DOMAIN n \cup DOMAIN o
  BY DEF Over, IsFunction
<1>6. DOMAIN l = DOMAIN r
  BY <1>1, <1>4, <1>5 DEF Names
<1>7. ASSUME NEW f \in DOMAIN l PROVE l[f] = r[f]
  <2>1. PICK fid \in DOMAIN both : f = names[fid] /\ l[f] = both[fid]
    BY <1>4 DEF Names
  <2>2. CASE fid \in DOMAIN new
    <3>1. both[fid] = new[fid] /\ f \in DOMAIN n /\ n[f] = new[fid]
      BY <1>3, <1>4, <2>1, <2>2 DEF Names
    <3> QED
      BY <2>1, <3>1 DEF Over
  <2>3. CASE fid \notin DOMAIN new
    <3>1. fid \in DOMAIN old /\ both[fid] = old[fid] /\ o[f] = old[fid] /\ f \in DOMAIN o
      BY <1>1, <1>3, <1>4, <2>1, <2>3 DEF Names
    <3>2. f \notin DOMAIN n
      <4>1. fid \in 1 .. Len(names) /\ \A g \in DOMAIN new : g \in 1 .. Len(names)
        BY <3>1 DEF Encoded
      <4> QED
        BY <1>4, <2>1, <2>3, <4>1 DEF Distinct, Names
    <3> QED
      BY <2>1, <3>1, <3>2 DEF Over
  <2> QED
    BY <2>2, <2>3
<1>8. IsFunction(l)
  BY <1>4 DEF Names
<1>9. l = r
  <2> HIDE DEF r
  <2> QED
    BY <1>5, <1>6, <1>7, <1>8, SameFunction
<1> QED
  BY <1>2, <1>9 DEF both, l, n, o, r

-----------------------------------------------------------------------------
(* What the posting databases file.                                          *)

\* A document has the same words under the ids of a longer map.
LEMMA OccurrencesExtended ==
  ASSUME NEW names, Distinct(names), NEW longer, Distinct(longer), Extends(longer, names),
         NEW obkv, Encoded(obkv, names), NEW settings
  PROVE  /\ Occurrences(obkv, settings, longer) = Occurrences(obkv, settings, names)
         /\ Readings(obkv, settings, longer) = Readings(obkv, settings, names)
         /\ \A o \in Occurrences(obkv, settings, names) : o.fid \in DOMAIN obkv
<1>1. /\ \A fid \in DOMAIN obkv : fid \in 1 .. Len(names) /\ fid \in 1 .. Len(longer)
      /\ \A fid \in DOMAIN obkv : longer[fid] = names[fid]
  <2>1. Len(names) \in Nat /\ Len(longer) \in Nat
    BY DEF Distinct
  <2> QED
    BY <2>1 DEF Encoded, Extends
<1>2. DOMAIN obkv \cap SearchableIds(settings, longer) = DOMAIN obkv \cap SearchableIds(settings, names)
  BY <1>1 DEF SearchableIds
<1>3. Tokens(obkv, settings, longer) = Tokens(obkv, settings, names)
  BY <1>2, Zenon DEF Tokens
<1>4. /\ Occurrences(obkv, settings, longer) = Occurrences(obkv, settings, names)
      /\ Readings(obkv, settings, longer) = Readings(obkv, settings, names)
  BY <1>3, Zenon DEF Occurrences, Readings
<1>5. ASSUME NEW o \in Occurrences(obkv, settings, names) PROVE o.fid \in DOMAIN obkv
  BY DEF Occurrences, Tokens
<1> QED
  BY <1>4, <1>5

\* The fields of a document that are among some names.
LEMMA IdsOfExtended ==
  ASSUME NEW names, Distinct(names), NEW longer, Distinct(longer), Extends(longer, names),
         NEW obkv, Encoded(obkv, names), NEW fields
  PROVE  \A fid \in DOMAIN obkv : fid \in IdsOf(fields, longer) <=> fid \in IdsOf(fields, names)
<1>1. Len(names) \in Nat /\ Len(longer) \in Nat
  BY DEF Distinct
<1> QED
  BY <1>1 DEF IdsOf, Encoded, Extends

\* The words in exact fields and in others depend on the fields of the occurrences only.
LEMMA SameWords ==
  ASSUME NEW occurrences, NEW exact, NEW other, NEW readings,
         \A o \in occurrences : o.fid \in exact <=> o.fid \in other
  PROVE  /\ ExactWords(occurrences, exact) = ExactWords(occurrences, other)
         /\ TolerantWords(occurrences, exact, readings) = TolerantWords(occurrences, other, readings)
<1>1. {u \in occurrences : u.fid \in exact} = {u \in occurrences : u.fid \in other}
  OBVIOUS
<1>2. ASSUME NEW w
      PROVE  {v \in occurrences : v.word = w /\ v.fid \in exact}
               = {v \in occurrences : v.word = w /\ v.fid \in other}
  OBVIOUS
<1> DEFINE many(w, fields) ==
             readings * Cardinality({v \in occurrences : v.word = w /\ v.fid \in fields}) >= 2
<1>3. \A w : many(w, exact) <=> many(w, other)
  BY <1>2
<1>4. TolerantWords(occurrences, exact, readings)
        = {o.word : o \in {u \in occurrences : u.fid \notin exact \/ many(u.word, exact)}}
  BY DEF TolerantWords
<1>5. TolerantWords(occurrences, other, readings)
        = {o.word : o \in {u \in occurrences : u.fid \notin other \/ many(u.word, other)}}
  BY DEF TolerantWords
<1> HIDE DEF many
<1>6. {u \in occurrences : u.fid \notin exact \/ many(u.word, exact)}
        = {u \in occurrences : u.fid \notin other \/ many(u.word, other)}
  BY <1>3
<1>7. TolerantWords(occurrences, exact, readings) = TolerantWords(occurrences, other, readings)
  BY <1>4, <1>5, <1>6, Zenon
<1>8. ExactWords(occurrences, exact) = ExactWords(occurrences, other)
  BY <1>1, Zenon DEF ExactWords
<1> QED
  BY <1>7, <1>8

\* Names that are added do not change the keys of a document.
LEMMA KeysExtended ==
  ASSUME NEW names, Distinct(names), NEW longer, Distinct(longer), Extends(longer, names),
         NEW obkv, Encoded(obkv, names), NEW settings
  PROVE  Keys(obkv, settings, longer) = Keys(obkv, settings, names)
<1> DEFINE occurrences == Occurrences(obkv, settings, names)
           readings == Readings(obkv, settings, names)
           exact(n) == IdsOf(settings.exact_attributes, n)
           faceted(n) == IdsOf(settings.faceted, n)
<1>1. Occurrences(obkv, settings, longer) = occurrences /\ Readings(obkv, settings, longer) = readings
  BY OccurrencesExtended
<1>2. \A o \in occurrences : o.fid \in exact(longer) <=> o.fid \in exact(names)
  BY OccurrencesExtended, IdsOfExtended
<1>3. /\ ExactWords(occurrences, exact(longer)) = ExactWords(occurrences, exact(names))
      /\ TolerantWords(occurrences, exact(longer), readings)
           = TolerantWords(occurrences, exact(names), readings)
  <2> HIDE DEF occurrences, exact, readings
  <2> QED
    BY <1>2, SameWords
<1>4. DOMAIN obkv \cap faceted(longer) = DOMAIN obkv \cap faceted(names)
  BY IdsOfExtended
<1>5. extract_fid_docid_facet_values(obkv, faceted(longer))
        = extract_fid_docid_facet_values(obkv, faceted(names))
  BY <1>4, Zenon DEF extract_fid_docid_facet_values
<1> QED
  BY <1>1, <1>3, <1>5, Zenon DEF Keys

\* The pairs that are filed for one kind of database.
Filed(documents, settings, names, kind, x) ==
  \E d \in DOMAIN documents : \E k \in Keys(documents[d], settings, names)[kind] : x = <<k, d>>

\* What Postings files.
LEMMA PostingsFacts ==
  ASSUME NEW documents, NEW settings, NEW names
  PROVE  LET p == Postings(documents, settings, names)
         IN /\ IsFunction(p) /\ DOMAIN p = PostingKinds
            /\ \A kind \in PostingKinds : \A x :
                 x \in p[kind] <=> Filed(documents, settings, names, kind, x)
<1> DEFINE p == Postings(documents, settings, names)
           keys == [d \in DOMAIN documents |-> Keys(documents[d], settings, names)]
<1>1. p = [kind \in PostingKinds |-> UNION {{<<k, d>> : k \in keys[d][kind]} : d \in DOMAIN documents}]
  BY DEF Postings
<1>2. \A d \in DOMAIN documents : keys[d] = Keys(documents[d], settings, names)
  OBVIOUS
<1> HIDE DEF keys, p
<1>3. IsFunction(p) /\ DOMAIN p = PostingKinds
  BY <1>1 DEF IsFunction
<1>4. ASSUME NEW kind \in PostingKinds, NEW x
      PROVE  x \in p[kind] <=> Filed(documents, settings, names, kind, x)
  <2>1. p[kind] = UNION {{<<k, d>> : k \in keys[d][kind]} : d \in DOMAIN documents}
    BY <1>1
  <2>2. x \in p[kind] <=> \E d \in DOMAIN documents : x \in {<<k, d>> : k \in keys[d][kind]}
    BY <2>1
  <2>3. \A d \in DOMAIN documents : x \in {<<k, d>> : k \in keys[d][kind]}
           <=> \E k \in Keys(documents[d], settings, names)[kind] : x = <<k, d>>
    BY <1>2
  <2> QED
    BY <2>2, <2>3 DEF Filed
<1> QED
  BY <1>3, <1>4 DEF p

\* Two sets of documents that file the same pairs.
LEMMA SamePostings ==
  ASSUME NEW documents, NEW settings, NEW names, NEW others, NEW more,
         \A kind \in PostingKinds : \A x :
            Filed(documents, settings, names, kind, x) <=> Filed(others, settings, more, kind, x)
  PROVE  Postings(documents, settings, names) = Postings(others, settings, more)
<1> DEFINE p == Postings(documents, settings, names)
           q == Postings(others, settings, more)
<1>1. /\ IsFunction(p) /\ DOMAIN p = PostingKinds
      /\ \A kind \in PostingKinds : \A x :
           x \in p[kind] <=> Filed(documents, settings, names, kind, x)
  BY PostingsFacts
<1>2. /\ IsFunction(q) /\ DOMAIN q = PostingKinds
      /\ \A kind \in PostingKinds : \A x : x \in q[kind] <=> Filed(others, settings, more, kind, x)
  BY PostingsFacts
<1> HIDE DEF p, q
<1>3. \A kind \in PostingKinds : p[kind] = q[kind]
  <2> TAKE kind \in PostingKinds
  <2>1. \A x : x \in p[kind] <=> x \in q[kind]
    BY <1>1, <1>2
  <2> QED
    BY <2>1
<1>4. p = q
  BY <1>1, <1>2, <1>3, SameFunction
<1> QED
  BY <1>4 DEF p, q

\* Names that are added do not change what is filed.
LEMMA PostingsExtended ==
  ASSUME NEW names, Distinct(names), NEW longer, Distinct(longer), Extends(longer, names),
         NEW documents, \A d \in DOMAIN documents : Encoded(documents[d], names), NEW settings
  PROVE  Postings(documents, settings, longer) = Postings(documents, settings, names)
<1>1. \A d \in DOMAIN documents :
         Keys(documents[d], settings, longer) = Keys(documents[d], settings, names)
  BY KeysExtended
<1>2. \A kind \in PostingKinds : \A x :
         Filed(documents, settings, longer, kind, x) <=> Filed(documents, settings, names, kind, x)
  BY <1>1 DEF Filed
<1> QED
  BY <1>2, SamePostings

\* Without documents nothing is filed.
LEMMA PostingsNothing ==
  ASSUME NEW documents, DOMAIN documents = {}, NEW settings, NEW names
  PROVE  Postings(documents, settings, names) = EmptyRelations(PostingKinds)
<1> DEFINE p == Postings(documents, settings, names)
<1>1. /\ IsFunction(p) /\ DOMAIN p = PostingKinds
      /\ \A kind \in PostingKinds : \A x :
           x \in p[kind] <=> Filed(documents, settings, names, kind, x)
  BY PostingsFacts
<1> HIDE DEF p
<1>2. \A kind \in PostingKinds : p[kind] = {}
  BY <1>1 DEF Filed
<1>3. p = EmptyRelations(PostingKinds)
  BY <1>1, <1>2 DEF EmptyRelations, IsFunction
<1> QED
  BY <1>3 DEF p

\* New documents are filed beside the others.
LEMMA PostingsOver ==
  ASSUME NEW new, NEW old, DOMAIN new \cap DOMAIN old = {}, NEW settings, NEW names
  PROVE  Postings(Over(new, old), settings, names)
           = [kind \in PostingKinds |->
                write_entries_into_database(Postings(old, settings, names)[kind],
                                            Postings(new, settings, names)[kind])]
<1> DEFINE all == Over(new, old)
           p == Postings(all, settings, names)
           q == Postings(old, settings, names)
           r == Postings(new, settings, names)
<1>1. /\ DOMAIN all = DOMAIN new \cup DOMAIN old
      /\ \A d \in DOMAIN new : all[d] = new[d]
      /\ \A d \in DOMAIN old : all[d] = old[d]
  BY DEF Over
<1>2. /\ IsFunction(p) /\ DOMAIN p = PostingKinds
      /\ \A kind \in PostingKinds : \A x : x \in p[kind] <=> Filed(all, settings, names, kind, x)
  BY PostingsFacts
<1>3. \A kind \in PostingKinds : \A x : x \in q[kind] <=> Filed(old, settings, names, kind, x)
  BY PostingsFacts
<1>4. \A kind \in PostingKinds : \A x : x \in r[kind] <=> Filed(new, settings, names, kind, x)
  BY PostingsFacts
<1> HIDE DEF all, p, q, r
<1>5. \A kind, x : Filed(all, settings, names, kind, x)
                     <=> Filed(new, settings, names, kind, x) \/ Filed(old, settings, names, kind, x)
  BY <1>1 DEF Filed
<1>6. \A kind \in PostingKinds : p[kind] = q[kind] \cup r[kind]
  <2> TAKE kind \in PostingKinds
  <2>1. \A x : x \in p[kind] <=> x \in q[kind] \cup r[kind]
    BY <1>2, <1>3, <1>4, <1>5
  <2> QED
    BY <2>1
<1>7. p = [kind \in PostingKinds |-> q[kind] \cup r[kind]]
  BY <1>2, <1>6 DEF IsFunction
<1> QED
  BY <1>7 DEF all, p, q, r, write_entries_into_database

\* Documents that leave every database.
LEMMA PostingsRestrict ==
  ASSUME NEW documents, NEW gone, NEW settings, NEW names
  PROVE  Postings(Restrict(documents, DOMAIN documents \ gone), settings, names)
           = Purged(Postings(documents, settings, names), gone)
<1> DEFINE left == Restrict(documents, DOMAIN documents \ gone)
           p == Postings(left, settings, names)
           q == Postings(documents, settings, names)
<1>1. /\ DOMAIN left = DOMAIN documents \ gone
      /\ \A d \in DOMAIN left : left[d] = documents[d]
  BY DEF Restrict
<1>2. /\ IsFunction(p) /\ DOMAIN p = PostingKinds
      /\ \A kind \in PostingKinds : \A x : x \in p[kind] <=> Filed(left, settings, names, kind, x)
  BY PostingsFacts
<1>3. /\ DOMAIN q = PostingKinds
      /\ \A kind \in PostingKinds : \A x : x \in q[kind] <=> Filed(documents, settings, names, kind, x)
  BY PostingsFacts
<1> HIDE DEF left, p, q
<1>4. \A kind, x : Filed(left, settings, names, kind, x)
                     <=> Filed(documents, settings, names, kind, x) /\ x[2] \notin gone
  BY <1>1 DEF Filed
<1>5. \A kind \in PostingKinds : p[kind] = Without(q[kind], gone)
  <2> TAKE kind \in PostingKinds
  <2>1. \A x : x \in p[kind] <=> x \in q[kind] /\ x[2] \notin gone
    BY <1>2, <1>3, <1>4
  <2> QED
    BY <2>1 DEF Without
<1>6. p = Purged(q, gone)
  BY <1>2, <1>3, <1>5 DEF Purged, IsFunction
<1> QED
  BY <1>6 DEF left, p, q

-----------------------------------------------------------------------------
(* The field distribution.                                                   *)

HasField(documents, names, f, d) == \E fid \in DOMAIN documents[d] : names[fid] = f

\* Ids are bounded, so that sets of them can be counted.
LEMMA CountFacts ==
  ASSUME NEW docids \in SUBSET (0 .. MaxDocId), NEW documents, NEW names, NEW f
  PROVE  /\ IsFiniteSet(docids) /\ Cardinality(docids) \in Nat
         /\ IsFiniteSet({d \in docids : HasField(documents, names, f, d)})
         /\ CountedIn(documents, docids, names, f) \in Nat
         /\ CountedIn(documents, docids, names, f)
              = Cardinality({d \in docids : HasField(documents, names, f, d)})
<1>1. IsFiniteSet(0 .. MaxDocId)
  BY IndexBounds, FS_Interval
<1>2. IsFiniteSet(docids) /\ Cardinality(docids) \in Nat
  BY <1>1, FS_Subset, FS_CardinalityType
<1> DEFINE has == {d \in docids : HasField(documents, names, f, d)}
<1>3. has \in SUBSET docids
  OBVIOUS
<1>4. CountedIn(documents, docids, names, f) = Cardinality(has)
  BY DEF CountedIn, HasField
<1> HIDE DEF has
<1>5. IsFiniteSet(has) /\ Cardinality(has) \in Nat
  BY <1>2, <1>3, FS_Subset, FS_CardinalityType
<1> QED
  BY <1>2, <1>4, <1>5 DEF has

\* Documents that have the same fields count the same.
LEMMA CountSame ==
  ASSUME NEW docids, NEW documents, NEW names, NEW others, NEW more, NEW f,
         \A d \in docids : HasField(documents, names, f, d) <=> HasField(others, more, f, d)
  PROVE  CountedIn(documents, docids, names, f) = CountedIn(others, docids, more, f)
<1>1. {d \in docids : HasField(documents, names, f, d)} = {d \in docids : HasField(others, more, f, d)}
  OBVIOUS
<1> QED
  BY <1>1 DEF CountedIn, HasField

\* The documents of two disjoint sets.
LEMMA CountUnion ==
  ASSUME NEW a \in SUBSET (0 .. MaxDocId), NEW b \in SUBSET (0 .. MaxDocId), a \cap b = {},
         NEW documents, NEW names, NEW f
  PROVE  CountedIn(documents, a \cup b, names, f)
           = CountedIn(documents, a, names, f) + CountedIn(documents, b, names, f)
<1> DEFINE has(s) == {d \in s : HasField(documents, names, f, d)}
<1>1. has(a \cup b) = has(a) \cup has(b) /\ has(a) \cap has(b) = {}
  OBVIOUS
<1>2. a \cup b \in SUBSET (0 .. MaxDocId)
  OBVIOUS
<1>3. /\ CountedIn(documents, a, names, f) = Cardinality(has(a)) /\ IsFiniteSet(has(a))
      /\ CountedIn(documents, b, names, f) = Cardinality(has(b)) /\ IsFiniteSet(has(b))
      /\ CountedIn(documents, a \cup b, names, f) = Cardinality(has(a \cup b))
      /\ Cardinality(has(a)) \in Nat /\ Cardinality(has(b)) \in Nat
  BY <1>2, CountFacts
<1> HIDE DEF has
<1>4. Cardinality(has(a) \cup has(b))
        = Cardinality(has(a)) + Cardinality(has(b)) - Cardinality(has(a) \cap has(b))
  BY <1>3, FS_Union
<1>5. Cardinality(has(a) \cap has(b)) = 0
  BY <1>1, FS_EmptySet
<1>6. Cardinality(has(a \cup b)) = Cardinality(has(a) \cup has(b))
  BY <1>1, Zenon
<1>7. Cardinality(has(a \cup b)) = Cardinality(has(a)) + Cardinality(has(b))
  BY <1>3, <1>4, <1>5, <1>6
<1> QED
  BY <1>3, <1>7, Zenon

\* The documents that are left when some go.
LEMMA CountDifference ==
  ASSUME NEW a \in SUBSET (0 .. MaxDocId), NEW b \in SUBSET a, NEW documents, NEW names, NEW f
  PROVE  CountedIn(documents, a \ b, names, f)
           = CountedIn(documents, a, names, f) - CountedIn(documents, b, names, f)
<1>1. a \ b \in SUBSET (0 .. MaxDocId) /\ b \in SUBSET (0 .. MaxDocId) /\ (a \ b) \cap b = {}
  OBVIOUS
<1>2. (a \ b) \cup b = a
  OBVIOUS
<1>3. CountedIn(documents, (a \ b) \cup b, names, f)
        = CountedIn(documents, a \ b, names, f) + CountedIn(documents, b, names, f)
  BY <1>1, CountUnion
<1>4. /\ CountedIn(documents, a \ b, names, f) \in Nat /\ CountedIn(documents, b, names, f) \in Nat
      /\ CountedIn(documents, a, names, f) \in Nat
  BY <1>1, CountFacts
<1> QED
  BY <1>2, <1>3, <1>4

\* A distribution that counts the fields of some documents.
Counts(distribution, documents, docids, names) ==
  distribution = Distribution([f \in Range(names) |-> CountedIn(documents, docids, names, f)])

\* The fields of documents are among the names of the map.
LEMMA CountOutside ==
  ASSUME NEW docids \in SUBSET (0 .. MaxDocId), NEW documents, NEW names, Distinct(names),
         \A d \in docids : Encoded(documents[d], names), NEW f, f \notin Range(names)
  PROVE  CountedIn(documents, docids, names, f) = 0
<1>1. \A d \in docids : ~HasField(documents, names, f, d)
  BY IdOfFacts DEF HasField, Encoded
<1>2. {d \in docids : HasField(documents, names, f, d)} = {}
  BY <1>1
<1>3. CountedIn(documents, docids, names, f) = Cardinality({})
  BY <1>2, CountFacts
<1> QED
  BY <1>3, FS_EmptySet

\* What is counted of a field that the distribution may not know.
LEMMA CountOf ==
  ASSUME NEW docids \in SUBSET (0 .. MaxDocId), NEW documents, NEW names, Distinct(names),
         \A d \in docids : Encoded(documents[d], names),
         NEW distribution, Counts(distribution, documents, docids, names), NEW f
  PROVE  /\ Count(distribution, f) = CountedIn(documents, docids, names, f)
         /\ f \in DOMAIN distribution <=> CountedIn(documents, docids, names, f) > 0
         /\ IsFunction(distribution)
         /\ f \in DOMAIN distribution =>
              f \in Range(names) /\ distribution[f] = CountedIn(documents, docids, names, f)
<1>1. CountedIn(documents, docids, names, f) \in Nat
  BY CountFacts
<1>2. f \notin Range(names) => CountedIn(documents, docids, names, f) = 0
  BY CountOutside
<1>3. /\ f \in DOMAIN distribution <=> f \in Range(names) /\ CountedIn(documents, docids, names, f) > 0
      /\ f \in DOMAIN distribution => distribution[f] = CountedIn(documents, docids, names, f)
      /\ IsFunction(distribution)
  BY DEF Counts, Distribution, Restrict, IsFunction
<1> QED
  BY <1>1, <1>2, <1>3 DEF Count

\* A function that counts right the fields that it knows, and knows those that count.
LEMMA CountsExactly ==
  ASSUME NEW docids \in SUBSET (0 .. MaxDocId), NEW documents, NEW names, Distinct(names),
         \A d \in docids : Encoded(documents[d], names),
         NEW count, IsFunction(count),
         \A f \in DOMAIN count : count[f] = CountedIn(documents, docids, names, f),
         \A f : CountedIn(documents, docids, names, f) > 0 => f \in DOMAIN count
  PROVE  Counts(Distribution(count), documents, docids, names)
<1> DEFINE exact == [f \in Range(names) |-> CountedIn(documents, docids, names, f)]
           l == Distribution(count)
           r == Distribution(exact)
<1>1. \A f : CountedIn(documents, docids, names, f) > 0 => f \in Range(names)
  <2> SUFFICES ASSUME NEW f, f \notin Range(names)
               PROVE  ~(CountedIn(documents, docids, names, f) > 0)
    OBVIOUS
  <2>1. CountedIn(documents, docids, names, f) = 0
    BY CountOutside
  <2> QED
    BY <2>1
<1>2. /\ IsFunction(l) /\ \A f : f \in DOMAIN l <=> f \in DOMAIN count /\ count[f] > 0
      /\ \A f \in DOMAIN l : l[f] = count[f]
  BY DEF Distribution, Restrict, IsFunction
<1>3. /\ IsFunction(r)
      /\ \A f : f \in DOMAIN r <=> f \in Range(names) /\ CountedIn(documents, docids, names, f) > 0
      /\ \A f \in DOMAIN r : r[f] = CountedIn(documents, docids, names, f)
  BY DEF Distribution, Restrict, IsFunction
<1>4. (r = l) => Counts(l, documents, docids, names)
  BY DEF Counts
<1> HIDE DEF l, r
<1>5. DOMAIN l = DOMAIN r
  BY <1>1, <1>2, <1>3
<1>6. \A f \in DOMAIN l : l[f] = r[f]
  BY <1>2, <1>3, <1>5
<1>7. l = r
  BY <1>2, <1>3, <1>5, <1>6, SameFunction
<1> QED
  BY <1>4, <1>7 DEF l

-----------------------------------------------------------------------------
(* The words of the documents and their prefixes.                            *)

IsWord(w) == w \in Seq(Nat) /\ Len(w) # 0

\* A searchable field is exact.
Exact(settings, names) ==
  SearchableIds(settings, names) \cap IdsOf(settings.exact_attributes, names) # {}

\* The relation that a prefix database abridges, with the word to abbreviate first in the keys.
Source(db, kind) ==
  IF kind = "word_prefix_pair_proximity_docids"
  THEN SecondAbbreviated(db["word_pair_proximity_docids"])
  ELSE IF kind = "prefix_word_pair_proximity_docids"
  THEN FirstAbbreviated(db["word_pair_proximity_docids"])
  ELSE db[kind]

Fits(kind, p) == kind \in WordKinds \/ Len(p) <= MaxPairPrefixLength

At(kd, p) == <<<<p, kd[1][2]>>, kd[2]>>

\* What a prefix database holds comes from the relation it abridges.
Sound(db, prefix_db) ==
  \A kind \in PrefixKinds : \A x \in prefix_db[kind] :
    /\ Fits(kind, x[1][1])
    /\ \E kd \in Source(db, kind) : StartsWith(kd[1][1], x[1][1]) /\ x = At(kd, x[1][1])

\* It holds all of what is under the prefixes of the FST.
Full(db, prefix_db, prefixes) ==
  \A kind \in PrefixKinds : \A kd \in Source(db, kind) : \A p \in prefixes :
    StartsWith(kd[1][1], p) /\ Fits(kind, p) => At(kd, p) \in prefix_db[kind]

\* The prefixes it knows are those of the FST.
Known(prefix_db, prefixes) ==
  /\ prefix_db["exact_word_docids"] = {}
  /\ \A x \in prefix_db["word_docids"] : x[1][1] \in prefixes

\* The FST holds the first letter of its prefixes, and no prefix without a word.
Closed(words, prefixes) ==
  \A p \in prefixes :
    IsWord(p) /\ <<p[1]>> \in prefixes /\ \E w \in words : StartsWith(w, p)

\* A word that starts with a prefix starts with its first letter.
LEMMA FirstLetter ==
  ASSUME NEW w, IsWord(w), NEW p, IsWord(p), StartsWith(w, p)
  PROVE  /\ p[1] = w[1] /\ IsWord(<<p[1]>>) /\ StartsWith(w, <<p[1]>>)
         /\ Len(<<p[1]>>) = 1 /\ <<p[1]>>[1] = p[1]
<1>1. Len(p) \in Nat /\ Len(w) \in Nat /\ 1 <= Len(p) /\ Len(p) <= Len(w)
  BY DEF IsWord, StartsWith
<1>2. SubSeq(w, 1, Len(p)) = p
  BY DEF StartsWith
<1>3. SubSeq(w, 1, Len(p))[1] = w[1]
  BY <1>1 DEF IsWord
<1>4. p[1] = w[1] /\ p[1] \in Nat
  BY <1>1, <1>2, <1>3 DEF IsWord
<1> DEFINE c == p[1]
           q == <<c>>
<1> HIDE DEF c
<1>5. q \in Seq(Nat) /\ Len(q) = 1 /\ q[1] = c
  BY <1>4 DEF c
<1>6. SubSeq(w, 1, 1) = q
  <2>1. /\ SubSeq(w, 1, 1) \in Seq(Nat) /\ Len(SubSeq(w, 1, 1)) = 1 /\ SubSeq(w, 1, 1)[1] = w[1]
    BY <1>1 DEF IsWord
  <2> HIDE DEF q
  <2> QED
    BY <1>4, <1>5, <2>1 DEF c
<1> HIDE DEF q
<1>7. StartsWith(w, q)
  BY <1>1, <1>5, <1>6 DEF StartsWith
<1> QED
  BY <1>4, <1>5, <1>7 DEF IsWord, c, q

\* The prefixes of a word.
LEMMA PrefixesOfFacts ==
  ASSUME NEW w, IsWord(w), NEW p \in PrefixesOf(w)
  PROVE  IsWord(p) /\ StartsWith(w, p) /\ <<p[1]>> \in PrefixesOf(w)
<1> DEFINE m == IF Len(w) < MaxPrefixLength THEN Len(w) ELSE MaxPrefixLength
<1>1. Len(w) \in Nat /\ Len(w) # 0 /\ m \in Nat /\ 1 <= m /\ m <= Len(w)
  BY IndexBounds DEF IsWord
<1>2. PICK n \in 1 .. m : p = SubSeq(w, 1, n)
  BY Zenon DEF PrefixesOf
<1> HIDE DEF m
<1>3. n \in 1 .. Len(w) /\ 1 \in 1 .. m
  BY <1>1
<1>4. p \in Seq(Nat) /\ Len(p) = n /\ p[1] = w[1] /\ w[1] \in Nat
  BY <1>1, <1>2, <1>3 DEF IsWord
<1>5. IsWord(p) /\ StartsWith(w, p)
  BY <1>1, <1>2, <1>3, <1>4 DEF IsWord, StartsWith
<1> DEFINE q == SubSeq(w, 1, 1)
<1>6. q \in PrefixesOf(w)
  BY <1>3, Zenon DEF PrefixesOf, m
<1>7. q = <<p[1]>>
  <2>1. q \in Seq(Nat) /\ Len(q) = 1 /\ q[1] = p[1]
    BY <1>1, <1>4 DEF IsWord
  <2> HIDE DEF q
  <2> QED
    BY <2>1
<1> QED
  BY <1>5, <1>6, <1>7

\* The FST that WordsPrefixesFst builds.
LEMMA FstClosed ==
  ASSUME NEW words, IsFiniteSet(words), \A w \in words : IsWord(w)
  PROVE  Closed(words, WordsPrefixesFst(words))
<1> SUFFICES ASSUME NEW p \in WordsPrefixesFst(words)
             PROVE  /\ IsWord(p) /\ <<p[1]>> \in WordsPrefixesFst(words)
                    /\ \E w \in words : StartsWith(w, p)
  BY DEF Closed
<1> DEFINE Those(q) == {w \in words : StartsWith(w, q)}
<1>1. PICK w \in words : p \in PrefixesOf(w)
  BY DEF WordsPrefixesFst
<1>2. IsWord(p) /\ StartsWith(w, p) /\ <<p[1]>> \in PrefixesOf(w)
  BY <1>1, PrefixesOfFacts
<1> DEFINE q == <<p[1]>>
<1>3. Those(p) \subseteq Those(q)
  BY <1>2, FirstLetter
<1>4. IsFiniteSet(Those(p)) /\ IsFiniteSet(Those(q))
  BY FS_Subset
<1>5. Cardinality(Those(p)) >= Threshold
  BY DEF WordsPrefixesFst
<1>6. q \in UNION {PrefixesOf(u) : u \in words}
  BY <1>1, <1>2
<1>7. Cardinality(Those(q)) >= Threshold
  <2>1. Cardinality(Those(p)) <= Cardinality(Those(q))
    BY <1>3, <1>4, FS_Subset
  <2>2. Cardinality(Those(p)) \in Nat /\ Cardinality(Those(q)) \in Nat
    BY <1>4, FS_CardinalityType
  <2> HIDE DEF Those
  <2> QED
    BY <1>5, <2>1, <2>2, IndexBounds
<1>8. q \in WordsPrefixesFst(words)
  <2> HIDE DEF q
  <2> QED
    BY <1>6, <1>7 DEF WordsPrefixesFst
<1> QED
  BY <1>1, <1>2, <1>8

\* A word is looked up under all the prefixes that it starts with: the first letter comes first
\* in the group.
LEMMA GroupComplete ==
  ASSUME NEW w, IsWord(w), NEW common, \A q \in common : IsWord(q),
         NEW p \in common, <<p[1]>> \in common, StartsWith(w, p)
  PROVE  p \in GroupOf(w, common)
<1> DEFINE group == {q \in common : q[1] = w[1]}
           first == <<p[1]>>
<1>1. /\ p[1] = w[1] /\ IsWord(first) /\ StartsWith(w, first) /\ first \in common
      /\ Len(first) = 1 /\ first[1] = p[1]
  BY FirstLetter
<1>2. p \in group /\ first \in group
  BY <1>1
<1> HIDE DEF first
<1>3. ASSUME NEW q \in group \ {first} PROVE Before(first, q)
  <2>1. q \in Seq(Nat) /\ Len(q) # 0 /\ q[1] = w[1] /\ q # first /\ Len(q) \in Nat
    BY <1>3 DEF IsWord
  <2>2. Len(q) # 1
    <3> SUFFICES ASSUME Len(q) = 1 PROVE q = first
      BY <2>1
    <3>1. first \in Seq(Nat) /\ Len(first) = Len(q)
      BY <1>1 DEF IsWord
    <3>2. \A i \in 1 .. Len(q) : q[i] = first[i]
      BY <1>1, <2>1
    <3> QED
      BY <2>1, <3>1, <3>2
  <2>3. 2 \in 1 .. Len(q) /\ 2 > Len(first)
    BY <1>1, <2>1, <2>2
  <2>4. \A j \in 1 .. (2 - 1) : j <= Len(first) /\ first[j] = q[j]
    BY <1>1, <2>1
  <2> QED
    BY <2>3, <2>4 DEF Before
<1>4. \E q \in group : StartsWith(w, q) /\ \A u \in group \ {q} : Before(q, u)
  BY <1>1, <1>2, <1>3
<1>5. GroupOf(w, common) = group
  BY <1>4, Zenon DEF GroupOf
<1> QED
  BY <1>2, <1>5

\* An entry of the relation, under one of the prefixes.
Abridged(x, relation, prefixes) ==
  \E kd \in relation : \E p \in prefixes : StartsWith(kd[1][1], p) /\ x = At(kd, p)

Grouped(x, relation, common) ==
  \E kd \in relation : \E p \in GroupOf(kd[1][1], common) :
    StartsWith(kd[1][1], p) /\ x = At(kd, p)

Short(prefixes) == {p \in prefixes : Len(p) <= MaxPairPrefixLength}

\* The prefix and the key of an entry.
LEMMA AtPrefix ==
  ASSUME NEW kd, NEW p
  PROVE  At(kd, p)[1][1] = p /\ At(kd, p)[1] = <<p, kd[1][2]>> /\ At(kd, p)[2] = kd[2]
  BY DEF At

\* What WordPrefixDocids::execute leaves in a prefix database.
LEMMA WordPrefixMembers ==
  ASSUME NEW old, NEW chunk, NEW db, NEW new, NEW common, NEW del, NEW x
  PROVE  x \in WordPrefixDocids(old, chunk, db, new, common, del) <=>
           \/ x \in old /\ x[1][1] \notin del
           \/ Grouped(x, chunk, common)
           \/ Abridged(x, db, new)
  BY DEF WordPrefixDocids, WithoutPrefixes, AtPrefixes, Abridged, Grouped, At

\* What index_word_prefix_database and index_prefix_word_database leave.
LEMMA PairPrefixMembers ==
  ASSUME NEW old, NEW chunk, NEW db, NEW new, NEW common, NEW del, NEW x
  PROVE  x \in PairPrefixDocids(old, chunk, db, new, common, del) <=>
           /\ x[1][1] \notin del
           /\ \/ /\ x \in old \/ Abridged(x, chunk, Short(common))
                 /\ ~ \E r : Abridged(r, db, Short(new)) /\ r[1] = x[1]
              \/ Abridged(x, db, Short(new))
<1> DEFINE inserted == old \cup AtPrefixes(chunk, LAMBDA w : Short(common))
           renewed == AtPrefixes(db, LAMBDA w : Short(new))
<1>1. PairPrefixDocids(old, chunk, db, new, common, del)
        = WithoutPrefixes({kd \in inserted : kd[1] \notin {r[1] : r \in renewed}} \cup renewed, del)
  BY Zenon DEF PairPrefixDocids, Short
<1>2. \A y : y \in inserted <=> y \in old \/ Abridged(y, chunk, Short(common))
  BY DEF AtPrefixes, Abridged, At
<1>3. \A y : y \in renewed <=> Abridged(y, db, Short(new))
  BY DEF AtPrefixes, Abridged, At
<1> HIDE DEF inserted, renewed
<1> QED
  BY <1>1, <1>2, <1>3 DEF WithoutPrefixes

\* The entries of a prefix database are entries of the relation under their own prefix.
From(filed, relation) ==
  \A x \in filed : \E kd \in relation : StartsWith(kd[1][1], x[1][1]) /\ x = At(kd, x[1][1])

\* All the entries of the relation are there, under each of the prefixes.
All(filed, relation, prefixes) ==
  \A kd \in relation : \A p \in prefixes : StartsWith(kd[1][1], p) => At(kd, p) \in filed

\* WordPrefixDocids::execute files nothing else.
LEMMA WordFrom ==
  ASSUME NEW old, NEW before, From(old, before), NEW chunk, NEW new, NEW common, NEW del
  PROVE  From(WordPrefixDocids(old, chunk, before \cup chunk, new, common, del), before \cup chunk)
<1> DEFINE db == before \cup chunk
           filed == WordPrefixDocids(old, chunk, db, new, common, del)
<1> SUFFICES ASSUME NEW x \in filed
             PROVE  \E kd \in db : StartsWith(kd[1][1], x[1][1]) /\ x = At(kd, x[1][1])
  BY DEF From
<1>1. x \in old \/ Grouped(x, chunk, common) \/ Abridged(x, db, new)
  BY WordPrefixMembers
<1>2. CASE x \in old
  BY <1>2 DEF From
<1>3. CASE Grouped(x, chunk, common)
  <2>1. PICK kd \in chunk : \E p \in GroupOf(kd[1][1], common) :
                              StartsWith(kd[1][1], p) /\ x = At(kd, p)
    BY <1>3 DEF Grouped
  <2>2. PICK p : StartsWith(kd[1][1], p) /\ x = At(kd, p)
    BY <2>1
  <2> QED
    BY <2>1, <2>2, AtPrefix
<1>4. CASE Abridged(x, db, new)
  <2>1. PICK kd \in db : \E p \in new : StartsWith(kd[1][1], p) /\ x = At(kd, p)
    BY <1>4 DEF Abridged
  <2>2. PICK p : StartsWith(kd[1][1], p) /\ x = At(kd, p)
    BY <2>1
  <2> QED
    BY <2>1, <2>2, AtPrefix
<1> QED
  BY <1>1, <1>2, <1>3, <1>4

\* It files everything under the prefixes of now: the prefixes that stay had what was there
\* before, and get what comes.
LEMMA WordAll ==
  ASSUME NEW old, NEW before, NEW previous, All(old, before, previous),
         NEW chunk, \A kd \in chunk : IsWord(kd[1][1]), NEW current,
         \A p \in previous \cap current : IsWord(p) /\ <<p[1]>> \in previous \cap current
  PROVE  All(WordPrefixDocids(old, chunk, before \cup chunk, current \ previous,
                              current \cap previous, previous \ current),
             before \cup chunk, current)
<1> DEFINE db == before \cup chunk
           new == current \ previous
           common == current \cap previous
           del == previous \ current
           filed == WordPrefixDocids(old, chunk, db, new, common, del)
<1> SUFFICES ASSUME NEW kd \in db, NEW p \in current, StartsWith(kd[1][1], p)
             PROVE  At(kd, p) \in filed
  BY DEF All
<1> DEFINE x == At(kd, p)
<1>1. x[1][1] = p
  BY AtPrefix
<1>2. CASE p \in new
  <2>1. Abridged(x, db, new)
    BY <1>2 DEF Abridged
  <2> HIDE DEF x, db, new, common, del
  <2> QED
    BY <2>1, WordPrefixMembers DEF x
<1>3. CASE p \in common /\ kd \in before
  <2>1. x \in old /\ x[1][1] \notin del
    BY <1>1, <1>3 DEF All
  <2> HIDE DEF x, db, new, common, del
  <2> QED
    BY <2>1, WordPrefixMembers DEF x
<1>4. CASE p \in common /\ kd \in chunk
  <2>1. \A q \in common : IsWord(q)
    OBVIOUS
  <2>2. <<p[1]>> \in common /\ IsWord(kd[1][1])
    BY <1>4
  <2> HIDE DEF common
  <2>3. p \in GroupOf(kd[1][1], common)
    BY <1>4, <2>1, <2>2, GroupComplete
  <2>4. Grouped(x, chunk, common)
    BY <1>4, <2>3 DEF Grouped
  <2> HIDE DEF x, db, new, del
  <2> QED
    BY <2>4, WordPrefixMembers DEF x
<1> QED
  BY <1>2, <1>3, <1>4

\* index_word_prefix_database and index_prefix_word_database: the same, for the short prefixes.
LEMMA PairFrom ==
  ASSUME NEW old, NEW before, From(old, before), NEW chunk, NEW new, NEW common, NEW del,
         \A x \in old : Len(x[1][1]) <= MaxPairPrefixLength
  PROVE  LET filed == PairPrefixDocids(old, chunk, before \cup chunk, new, common, del) IN
         /\ From(filed, before \cup chunk)
         /\ \A x \in filed : Len(x[1][1]) <= MaxPairPrefixLength
<1> DEFINE db == before \cup chunk
           filed == PairPrefixDocids(old, chunk, db, new, common, del)
<1>1. ASSUME NEW x \in filed
      PROVE  /\ \E kd \in db : StartsWith(kd[1][1], x[1][1]) /\ x = At(kd, x[1][1])
             /\ Len(x[1][1]) <= MaxPairPrefixLength
  <2>1. x \in old \/ Abridged(x, chunk, Short(common)) \/ Abridged(x, db, Short(new))
    BY <1>1, PairPrefixMembers
  <2>2. CASE x \in old
    BY <2>2 DEF From
  <2>3. ASSUME NEW prefixes, Abridged(x, db, Short(prefixes))
        PROVE  /\ \E kd \in db : StartsWith(kd[1][1], x[1][1]) /\ x = At(kd, x[1][1])
               /\ Len(x[1][1]) <= MaxPairPrefixLength
    <3>1. PICK kd \in db : \E p \in Short(prefixes) : StartsWith(kd[1][1], p) /\ x = At(kd, p)
      BY <2>3 DEF Abridged
    <3>2. PICK p \in Short(prefixes) : StartsWith(kd[1][1], p) /\ x = At(kd, p)
      BY <3>1
    <3>3. x[1][1] = p /\ Len(p) <= MaxPairPrefixLength
      BY <3>2, AtPrefix DEF Short
    <3> QED
      BY <3>1, <3>2, <3>3
  <2>4. CASE Abridged(x, chunk, Short(common))
    <3>1. Abridged(x, db, Short(common))
      BY <2>4 DEF Abridged
    <3> QED
      BY <2>3, <3>1
  <2>5. CASE Abridged(x, db, Short(new))
    BY <2>3, <2>5
  <2> QED
    BY <2>1, <2>2, <2>4, <2>5
<1> QED
  BY <1>1 DEF From

\* They file everything under the short prefixes of now.
LEMMA PairAll ==
  ASSUME NEW old, NEW before, NEW previous, All(old, before, Short(previous)), NEW chunk, NEW current
  PROVE  All(PairPrefixDocids(old, chunk, before \cup chunk, current \ previous,
                              current \cap previous, previous \ current),
             before \cup chunk, Short(current))
<1> DEFINE db == before \cup chunk
           new == current \ previous
           common == current \cap previous
           del == previous \ current
           filed == PairPrefixDocids(old, chunk, db, new, common, del)
<1> SUFFICES ASSUME NEW kd \in db, NEW p \in Short(current), StartsWith(kd[1][1], p)
             PROVE  At(kd, p) \in filed
  BY DEF All
<1> DEFINE x == At(kd, p)
<1>1. x[1][1] = p /\ p \notin del /\ p \in current
  BY AtPrefix DEF Short
<1>2. CASE p \in new
  <2>1. Abridged(x, db, Short(new))
    BY <1>2 DEF Abridged, Short
  <2> HIDE DEF x, db, new, common, del
  <2> QED
    BY <1>1, <2>1, PairPrefixMembers DEF x
<1>3. CASE p \in common
  <2>1. x \in old \/ Abridged(x, chunk, Short(common))
    <3>1. p \in Short(previous) /\ p \in Short(common)
      BY <1>3 DEF Short
    <3>2. CASE kd \in before
      BY <3>1, <3>2 DEF All
    <3>3. CASE kd \in chunk
      BY <3>1, <3>3 DEF Abridged
    <3> QED
      BY <3>2, <3>3
  <2>2. ASSUME NEW r, Abridged(r, db, Short(new)), r[1] = x[1] PROVE FALSE
    <3>1. PICK q \in Short(new) : r[1][1] = q
      BY <2>2, AtPrefix DEF Abridged
    <3>2. q = p
      BY <1>1, <2>2, <3>1
    <3> QED
      BY <1>3, <3>1, <3>2 DEF Short
  <2> HIDE DEF x, db, new, common, del
  <2> QED
    BY <1>1, <2>1, <2>2, PairPrefixMembers DEF x
<1> QED
  BY <1>1, <1>2, <1>3

\* The words of the fields of a document.
FieldWords(obkv) ==
  UNION {{obkv[fid][i] : i \in 1 .. Len(obkv[fid])} : fid \in DOMAIN obkv}

\* An occurrence is a word of a searchable field (process_tokens leaves the separators out).
LEMMA OccurrenceFacts ==
  ASSUME NEW names, NEW obkv, Encoded(obkv, names), NEW settings,
         NEW o \in Occurrences(obkv, settings, names)
  PROVE  /\ o.fid \in SearchableIds(settings, names)
         /\ o.word \in FieldWords(obkv) /\ IsWord(o.word)
<1>1. PICK fid \in DOMAIN obkv \cap SearchableIds(settings, names) :
        \E t \in process_tokens(obkv[fid]) : o = [word |-> t[2], fid |-> fid, pos |-> t[1]]
  BY DEF Occurrences, Tokens
<1>2. PICK t \in process_tokens(obkv[fid]) : o = [word |-> t[2], fid |-> fid, pos |-> t[1]]
  BY <1>1
<1> DEFINE value == obkv[fid]
<1>3. PICK i \in 1 .. Len(value) : value[i] # Hard /\ t[2] = value[i]
  <2>1. \E offset : \E i \in {j \in 1 .. Len(value) : value[j] # Hard} :
          t = <<offset[i], value[i]>>
    BY <1>2, Zenon DEF process_tokens
  <2> HIDE DEF value
  <2>2. PICK offset : \E i \in {j \in 1 .. Len(value) : value[j] # Hard} :
          t = <<offset[i], value[i]>>
    BY <2>1
  <2>3. PICK i \in {j \in 1 .. Len(value) : value[j] # Hard} : t = <<offset[i], value[i]>>
    BY <2>2
  <2> QED
    BY <2>3
<1>4. o.word = value[i] /\ o.fid = fid
  BY <1>2, <1>3
<1>5. value \in Seq(Seq(Nat))
  BY DEF Encoded, IsValue
<1>6. value[i] \in FieldWords(obkv)
  BY <1>3 DEF FieldWords
<1>7. IsWord(value[i])
  <2> DEFINE w == value[i]
  <2>1. w \in Seq(Nat)
    BY <1>3, <1>5
  <2>2. w # <<>>
    BY <1>3 DEF Hard
  <2> HIDE DEF w
  <2>3. Len(w) # 0
    BY <2>1, <2>2
  <2>4. IsWord(w)
    BY <2>1, <2>3 DEF IsWord
  <2> QED
    BY <2>4 DEF w
<1> QED
  BY <1>1, <1>4, <1>6, <1>7

\* A function with finitely many arguments has finitely many values, and their union is finite
\* if each of them is.
LEMMA ImageFinite ==
  ASSUME NEW f, NEW S, IsFiniteSet(S)
  PROVE  /\ IsFiniteSet({f[x] : x \in S})
         /\ (\A x \in S : IsFiniteSet(f[x])) => IsFiniteSet(UNION {f[x] : x \in S})
<1> DEFINE T == {f[x] : x \in S}
           g == [x \in S |-> f[x]]
<1>1. g \in [S -> T]
  OBVIOUS
<1>2. \A t \in T : \E x \in S : g[x] = t
  OBVIOUS
<1>3. \A t \in T : \E x \in S : t = f[x]
  OBVIOUS
<1> HIDE DEF T, g
<1>4. g \in Surjection(S, T)
  BY <1>1, <1>2 DEF Surjection
<1>5. IsFiniteSet(T)
  BY <1>4, FS_Surjection
<1>6. (\A x \in S : IsFiniteSet(f[x])) => IsFiniteSet(UNION T)
  BY <1>3, <1>5, FS_UNION
<1> QED
  BY <1>5, <1>6 DEF T

\* A document has finitely many words.
LEMMA FieldWordsFinite ==
  ASSUME NEW names, Distinct(names), NEW obkv, Encoded(obkv, names)
  PROVE  IsFiniteSet(FieldWords(obkv))
<1> DEFINE in == [fid \in DOMAIN obkv |-> {obkv[fid][i] : i \in 1 .. Len(obkv[fid])}]
<1>1. IsFiniteSet(DOMAIN obkv)
  <2>1. Len(names) \in Nat /\ DOMAIN obkv \subseteq 1 .. Len(names)
    BY DEF Distinct, Encoded
  <2>2. IsFiniteSet(1 .. Len(names))
    BY <2>1, FS_Interval
  <2> QED
    BY <2>1, <2>2, FS_Subset
<1>2. ASSUME NEW fid \in DOMAIN obkv PROVE IsFiniteSet(in[fid])
  <2> DEFINE value == obkv[fid]
  <2>1. value \in Seq(Seq(Nat))
    BY DEF Encoded, IsValue
  <2>2. in[fid] = {value[i] : i \in 1 .. Len(value)}
    OBVIOUS
  <2> HIDE DEF value, in
  <2>3. IsFiniteSet(1 .. Len(value))
    BY <2>1, FS_Interval
  <2>4. IsFiniteSet({value[i] : i \in 1 .. Len(value)})
    BY <2>3, ImageFinite
  <2> QED
    BY <2>2, <2>4
<1>3. FieldWords(obkv) = UNION {in[fid] : fid \in DOMAIN obkv}
  BY DEF FieldWords
<1> DEFINE S == DOMAIN obkv
<1> HIDE DEF in
<1>4. \A fid \in S : IsFiniteSet(in[fid])
  BY <1>2
<1>5. IsFiniteSet(S)
  BY <1>1
<1> HIDE DEF S
<1>6. IsFiniteSet(UNION {in[fid] : fid \in S})
  BY <1>4, <1>5, ImageFinite
<1> QED
  BY <1>3, <1>6 DEF S

\* The words under which a document is filed are those of its occurrences, in one database or
\* the other.
LEMMA KeysWords ==
  ASSUME NEW obkv, NEW settings, NEW names
  PROVE  LET keys == Keys(obkv, settings, names)
             occurrences == Occurrences(obkv, settings, names)
         IN /\ \A kind \in WordKinds : \A k \in keys[kind] : \E o \in occurrences : k[1] = o.word
            /\ \A k \in keys["word_docids"] \cup keys["exact_word_docids"] : k = <<k[1], 0>>
            /\ \A o \in occurrences :
                 <<o.word, 0>> \in keys["word_docids"] \cup keys["exact_word_docids"]
            /\ (\A o \in occurrences : o.fid \notin IdsOf(settings.exact_attributes, names)) =>
                 keys["exact_word_docids"] = {}
<1> DEFINE keys == Keys(obkv, settings, names)
           occurrences == Occurrences(obkv, settings, names)
           exact == IdsOf(settings.exact_attributes, names)
           tolerant == TolerantWords(occurrences, exact, Readings(obkv, settings, names))
<1>1. /\ keys["word_docids"] = {<<w, 0>> : w \in tolerant}
      /\ keys["exact_word_docids"] = {<<w, 0>> : w \in ExactWords(occurrences, exact)}
      /\ keys["word_position_docids"] = extract_word_position_docids(occurrences)
      /\ keys["word_fid_docids"] = extract_word_fid_docids(occurrences)
  BY DEF Keys
<1>2. /\ \A w \in tolerant : \E o \in occurrences : w = o.word
      /\ \A o \in occurrences : o.fid \notin exact => o.word \in tolerant
  BY DEF TolerantWords
<1> HIDE DEF keys, occurrences, exact, tolerant
<1>3. \A w : w \in ExactWords(occurrences, exact) <=>
               \E o \in occurrences : o.fid \in exact /\ w = o.word
  BY DEF ExactWords
<1>4. /\ \A k \in keys["word_position_docids"] : \E o \in occurrences : k[1] = o.word
      /\ \A k \in keys["word_fid_docids"] : \E o \in occurrences : k[1] = o.word
  BY <1>1 DEF extract_word_position_docids, extract_word_fid_docids
<1>5. \A k \in keys["word_docids"] \cup keys["exact_word_docids"] :
        k = <<k[1], 0>> /\ \E o \in occurrences : k[1] = o.word
  BY <1>1, <1>2, <1>3
<1>6. ASSUME NEW o \in occurrences
      PROVE  <<o.word, 0>> \in keys["word_docids"] \cup keys["exact_word_docids"]
  <2>1. o.word \in tolerant \/ o.word \in ExactWords(occurrences, exact)
    BY <1>2, <1>3
  <2> QED
    BY <1>1, <2>1
<1>7. (\A o \in occurrences : o.fid \notin exact) => keys["exact_word_docids"] = {}
  BY <1>1, <1>3
<1>8. \A kind \in WordKinds : \A k \in keys[kind] : \E o \in occurrences : k[1] = o.word
  BY <1>4, <1>5 DEF WordKinds
<1> QED
  BY <1>5, <1>6, <1>7, <1>8 DEF keys, occurrences, exact

\* The word databases of some documents.
Worded(db, settings, names) ==
  /\ \A kind \in WordKinds : \A x \in db[kind] : IsWord(x[1][1])
  /\ IsFiniteSet(WordsOf(db["word_docids"]) \cup WordsOf(db["exact_word_docids"]))
  /\ ~Exact(settings, names) => db["exact_word_docids"] = {}

\* They hold finitely many words, and no exact ones unless a field is exact.
LEMMA PostingsWorded ==
  ASSUME NEW names, Distinct(names), NEW documents, DOMAIN documents \subseteq 0 .. MaxDocId,
         \A d \in DOMAIN documents : Encoded(documents[d], names), NEW settings
  PROVE  Worded(Postings(documents, settings, names), settings, names)
<1> DEFINE db == Postings(documents, settings, names)
           keys(d) == Keys(documents[d], settings, names)
           occurrences(d) == Occurrences(documents[d], settings, names)
<1>1. \A kind \in PostingKinds : \A x \in db[kind] :
        \E d \in DOMAIN documents : \E k \in keys(d)[kind] : x = <<k, d>>
  BY PostingsFacts DEF Filed
<1>2. WordKinds \subseteq PostingKinds /\ {"word_docids", "exact_word_docids"} \subseteq WordKinds
  BY DEF PostingKinds, WordKinds
<1> HIDE DEF db
<1>3. ASSUME NEW kind \in WordKinds, NEW x \in db[kind]
      PROVE  \E d \in DOMAIN documents : \E o \in occurrences(d) : x[1][1] = o.word
  <2>1. PICK d \in DOMAIN documents : \E k \in keys(d)[kind] : x = <<k, d>>
    BY <1>1, <1>2
  <2>2. PICK k \in keys(d)[kind] : x = <<k, d>>
    BY <2>1
  <2>3. \E o \in occurrences(d) : k[1] = o.word
    BY <2>2, KeysWords
  <2> QED
    BY <2>1, <2>2, <2>3
<1>4. ASSUME NEW d \in DOMAIN documents, NEW o \in occurrences(d)
      PROVE  /\ o.fid \in SearchableIds(settings, names)
             /\ o.word \in FieldWords(documents[d]) /\ IsWord(o.word)
  BY OccurrenceFacts
<1>5. \A kind \in WordKinds : \A x \in db[kind] : IsWord(x[1][1])
  BY <1>3, <1>4
<1>6. IsFiniteSet(WordsOf(db["word_docids"]) \cup WordsOf(db["exact_word_docids"]))
  <2> DEFINE S == DOMAIN documents
             f == [d \in S |-> FieldWords(documents[d])]
             words == UNION {f[d] : d \in S}
             these == WordsOf(db["word_docids"]) \cup WordsOf(db["exact_word_docids"])
  <2>1. IsFiniteSet(S)
    <3>1. IsFiniteSet(0 .. MaxDocId)
      BY IndexBounds, FS_Interval
    <3> QED
      BY <3>1, FS_Subset
  <2>2. \A d \in S : IsFiniteSet(f[d])
    BY FieldWordsFinite
  <2>3. ASSUME NEW kind \in {"word_docids", "exact_word_docids"}, NEW x \in db[kind]
        PROVE  x[1][1] \in words
    <3>1. PICK d \in S : \E o \in occurrences(d) : x[1][1] = o.word
      BY <1>2, <1>3, <2>3
    <3>2. x[1][1] \in FieldWords(documents[d])
      BY <1>4, <3>1
    <3>3. FieldWords(documents[d]) = f[d]
      OBVIOUS
    <3> HIDE DEF f, S
    <3> QED
      BY <3>1, <3>2, <3>3
  <2>4. these \subseteq words
    BY <2>3 DEF WordsOf
  <2> HIDE DEF S, f, these
  <2>5. IsFiniteSet(words)
    BY <2>1, <2>2, ImageFinite
  <2>6. IsFiniteSet(these)
    BY <2>4, <2>5, FS_Subset
  <2> QED
    BY <2>6 DEF these
<1>7. ASSUME ~Exact(settings, names) PROVE db["exact_word_docids"] = {}
  <2>1. ASSUME NEW d \in DOMAIN documents PROVE keys(d)["exact_word_docids"] = {}
    <3>1. \A o \in occurrences(d) : o.fid \notin IdsOf(settings.exact_attributes, names)
      BY <1>4, <1>7 DEF Exact
    <3> QED
      BY <3>1, KeysWords
  <2> QED
    BY <1>1, <1>2, <2>1
<1> QED
  BY <1>5, <1>6, <1>7 DEF Worded, db

\* The relations that are abridged, when entries come or go.
LEMMA SourceUnion ==
  ASSUME NEW db, NEW old, NEW chunk,
         \A kind \in PostingKinds : db[kind] = write_entries_into_database(old[kind], chunk[kind]),
         NEW kind \in PrefixKinds
  PROVE  Source(db, kind) = Source(old, kind) \cup Source(chunk, kind)
<1> DEFINE pairs == "word_pair_proximity_docids"
<1>1. db[pairs] = old[pairs] \cup chunk[pairs]
  BY DEF PostingKinds, write_entries_into_database
<1>2. \A a, b : /\ SecondAbbreviated(a \cup b) = SecondAbbreviated(a) \cup SecondAbbreviated(b)
                /\ FirstAbbreviated(a \cup b) = FirstAbbreviated(a) \cup FirstAbbreviated(b)
  BY DEF SecondAbbreviated, FirstAbbreviated
<1>3. CASE kind \in WordKinds
  <2>1. db[kind] = old[kind] \cup chunk[kind]
    BY <1>3 DEF PostingKinds, write_entries_into_database
  <2> QED
    BY <1>3, <2>1 DEF Source, WordKinds
<1>4. CASE kind = "word_prefix_pair_proximity_docids"
  BY <1>1, <1>2, <1>4 DEF Source
<1>5. CASE kind = "prefix_word_pair_proximity_docids"
  BY <1>1, <1>2, <1>5 DEF Source
<1> QED
  BY <1>3, <1>4, <1>5 DEF PrefixKinds

\* A purge of the databases purges what is abridged.
LEMMA SourceWithout ==
  ASSUME NEW db, DOMAIN db = PostingKinds, NEW gone, NEW kind \in PrefixKinds
  PROVE  Source(Purged(db, gone), kind) = Without(Source(db, kind), gone)
<1> DEFINE pairs == "word_pair_proximity_docids"
           purged == Purged(db, gone)
<1>1. \A k \in PostingKinds : purged[k] = Without(db[k], gone)
  BY DEF Purged
<1>2. pairs \in PostingKinds
  BY DEF PostingKinds
<1> HIDE DEF purged
<1>3. \A a : /\ SecondAbbreviated(Without(a, gone)) = Without(SecondAbbreviated(a), gone)
             /\ FirstAbbreviated(Without(a, gone)) = Without(FirstAbbreviated(a), gone)
  BY DEF SecondAbbreviated, FirstAbbreviated, Without
<1>4. CASE kind \in WordKinds
  <2>1. purged[kind] = Without(db[kind], gone)
    BY <1>1, <1>4 DEF PostingKinds
  <2> QED
    BY <1>4, <2>1 DEF Source, WordKinds, purged
<1>5. CASE kind = "word_prefix_pair_proximity_docids"
  BY <1>1, <1>2, <1>3, <1>5 DEF Source, purged
<1>6. CASE kind = "prefix_word_pair_proximity_docids"
  BY <1>1, <1>2, <1>3, <1>6 DEF Source, purged
<1> QED
  BY <1>4, <1>5, <1>6 DEF PrefixKinds

\* The parts of the invariant, one database at a time.
LEMMA SoundFacts ==
  ASSUME NEW db, NEW prefix_db
  PROVE  Sound(db, prefix_db) <=>
           \A kind \in PrefixKinds :
             /\ From(prefix_db[kind], Source(db, kind))
             /\ kind \notin WordKinds =>
                  \A x \in prefix_db[kind] : Len(x[1][1]) <= MaxPairPrefixLength
  BY Zenon DEF Sound, From, Fits

\* For the pairs, only the short prefixes count.
LEMMA FullFacts ==
  ASSUME NEW db, NEW prefix_db, NEW prefixes
  PROVE  Full(db, prefix_db, prefixes) <=>
           \A kind \in PrefixKinds :
             All(prefix_db[kind], Source(db, kind),
                 IF kind \in WordKinds THEN prefixes ELSE Short(prefixes))
<1>1. \A kind \in PrefixKinds :
        (\A kd \in Source(db, kind) : \A p \in prefixes :
           StartsWith(kd[1][1], p) /\ Fits(kind, p) => At(kd, p) \in prefix_db[kind])
        <=> All(prefix_db[kind], Source(db, kind),
                IF kind \in WordKinds THEN prefixes ELSE Short(prefixes))
  BY DEF All, Fits, Short
<1> QED
  BY <1>1, Zenon DEF Full

\* A purge keeps the prefix databases in order: DeleteDocuments::execute_inner.  A prefix leaves
\* the FST when it has lost its last document, and only then.
LEMMA PurgedPrefixes ==
  ASSUME NEW db, DOMAIN db = PostingKinds, NEW prefix_db, DOMAIN prefix_db = PrefixKinds,
         NEW gone, NEW prefixes, Sound(db, prefix_db)
  PROVE  LET purged == Purged(db, gone)
             left == Purged(prefix_db, gone)
             emptied(kind) == WordsOf(prefix_db[kind]) \ WordsOf(left[kind])
             kept == prefixes \ (emptied("word_docids") \cup emptied("exact_word_docids"))
             words == WordsOf(db["word_docids"]) \cup WordsOf(db["exact_word_docids"])
             still == WordsOf(purged["word_docids"]) \cup WordsOf(purged["exact_word_docids"])
         IN /\ DOMAIN left = PrefixKinds /\ Sound(purged, left)
            /\ /\ Full(db, prefix_db, prefixes) /\ Known(prefix_db, prefixes)
               /\ Closed(words, prefixes) /\ db["exact_word_docids"] = {}
               /\ \A x \in db["word_docids"] : IsWord(x[1][1])
               => Full(purged, left, kept) /\ Known(left, kept) /\ Closed(still, kept)
<1> DEFINE purged == Purged(db, gone)
           left == Purged(prefix_db, gone)
           emptied(kind) == WordsOf(prefix_db[kind]) \ WordsOf(left[kind])
           kept == prefixes \ (emptied("word_docids") \cup emptied("exact_word_docids"))
           words == WordsOf(db["word_docids"]) \cup WordsOf(db["exact_word_docids"])
           still == WordsOf(purged["word_docids"]) \cup WordsOf(purged["exact_word_docids"])
<1>1. DOMAIN left = PrefixKinds /\ \A kind \in PrefixKinds : left[kind] = Without(prefix_db[kind], gone)
  BY DEF Purged
<1>2. \A kind \in PostingKinds : purged[kind] = Without(db[kind], gone)
  BY DEF Purged
<1>3. \A kind \in PrefixKinds : Source(purged, kind) = Without(Source(db, kind), gone)
  BY SourceWithout
<1>4. /\ "word_docids" \in PrefixKinds /\ "exact_word_docids" \in PrefixKinds
      /\ "word_docids" \in PostingKinds /\ "exact_word_docids" \in PostingKinds
      /\ "word_docids" \in WordKinds
      /\ \A d : Source(d, "word_docids") = d["word_docids"]
  BY DEF PrefixKinds, PostingKinds, WordKinds, Source
<1> HIDE DEF purged, left
<1>5. Sound(purged, left)
  <2> SUFFICES ASSUME NEW kind \in PrefixKinds, NEW x \in left[kind]
               PROVE  /\ Fits(kind, x[1][1])
                      /\ \E kd \in Source(purged, kind) :
                            StartsWith(kd[1][1], x[1][1]) /\ x = At(kd, x[1][1])
    BY DEF Sound
  <2>1. x \in prefix_db[kind] /\ x[2] \notin gone
    BY <1>1 DEF Without
  <2>2. PICK kd \in Source(db, kind) : StartsWith(kd[1][1], x[1][1]) /\ x = At(kd, x[1][1])
    BY <2>1 DEF Sound
  <2>3. kd[2] \notin gone
    BY <2>1, <2>2, AtPrefix
  <2>4. kd \in Source(purged, kind)
    BY <1>3, <2>2, <2>3 DEF Without
  <2> QED
    BY <2>1, <2>2, <2>4 DEF Sound
<1>6. ASSUME Full(db, prefix_db, prefixes), Known(prefix_db, prefixes), Closed(words, prefixes),
             db["exact_word_docids"] = {}, \A x \in db["word_docids"] : IsWord(x[1][1])
      PROVE  Full(purged, left, kept) /\ Known(left, kept) /\ Closed(still, kept)
  <2>1. Full(purged, left, prefixes)
    <3> SUFFICES ASSUME NEW kind \in PrefixKinds, NEW kd \in Source(purged, kind),
                        NEW p \in prefixes, StartsWith(kd[1][1], p), Fits(kind, p)
                 PROVE  At(kd, p) \in left[kind]
      BY DEF Full
    <3>1. kd \in Source(db, kind) /\ kd[2] \notin gone
      BY <1>3 DEF Without
    <3>2. At(kd, p) \in prefix_db[kind]
      BY <1>6, <3>1 DEF Full
    <3>3. At(kd, p)[2] \notin gone
      BY <3>1, AtPrefix
    <3> QED
      BY <1>1, <3>2, <3>3 DEF Without
  <2>2. left["exact_word_docids"] = {} /\ emptied("exact_word_docids") = {}
    BY <1>1, <1>4, <1>6 DEF Known, Without, WordsOf
  <2>3. \A p : p \in kept <=> p \in prefixes /\ ~(p \in emptied("word_docids"))
    BY <2>2
  <2>4. \A x \in left["word_docids"] : x[1][1] \in kept
    <3> SUFFICES ASSUME NEW x \in left["word_docids"] PROVE x[1][1] \in kept
      OBVIOUS
    <3>1. x \in prefix_db["word_docids"] /\ x[1][1] \in WordsOf(left["word_docids"])
      BY <1>1, <1>4 DEF Without, WordsOf
    <3> QED
      BY <1>6, <2>3, <3>1 DEF Known
  <2>5. ASSUME NEW kd \in purged["word_docids"], NEW p \in prefixes, StartsWith(kd[1][1], p)
        PROVE  p \in kept
    <3>1. At(kd, p) \in left["word_docids"]
      BY <1>4, <2>1, <2>5 DEF Full, Fits
    <3> QED
      BY <2>4, <3>1, AtPrefix
  <2>6. ASSUME NEW p \in kept
        PROVE  \E kd \in purged["word_docids"] : StartsWith(kd[1][1], p)
    <3>1. PICK w \in words : StartsWith(w, p)
      BY <1>6, <2>3 DEF Closed
    <3>2. PICK kd \in db["word_docids"] : w = kd[1][1]
      BY <1>6, <3>1 DEF WordsOf
    <3>3. At(kd, p) \in prefix_db["word_docids"]
      BY <1>4, <1>6, <2>3, <3>1, <3>2 DEF Full, Fits
    <3>4. p \in WordsOf(prefix_db["word_docids"])
      BY <3>3, AtPrefix DEF WordsOf
    <3>5. p \in WordsOf(left["word_docids"])
      BY <2>3, <3>4
    <3>6. PICK x \in left["word_docids"] : x[1][1] = p
      BY <3>5 DEF WordsOf
    <3> QED
      BY <1>4, <1>5, <3>6 DEF Sound
  <2>7. ASSUME NEW p \in kept
        PROVE  IsWord(p) /\ <<p[1]>> \in kept /\ \E w \in still : StartsWith(w, p)
    <3>1. IsWord(p) /\ <<p[1]>> \in prefixes
      BY <1>6, <2>3 DEF Closed
    <3>2. PICK kd \in purged["word_docids"] : StartsWith(kd[1][1], p)
      BY <2>6
    <3>3. kd[1][1] \in still
      BY <3>2 DEF WordsOf
    <3>4. kd \in db["word_docids"]
      BY <1>2, <1>4, <3>2 DEF Without
    <3>5. IsWord(kd[1][1])
      BY <1>6, <3>4
    <3>6. StartsWith(kd[1][1], <<p[1]>>)
      BY <3>1, <3>2, <3>5, FirstLetter
    <3>7. <<p[1]>> \in kept
      BY <2>5, <3>1, <3>2, <3>6
    <3> QED
      BY <3>1, <3>2, <3>3, <3>7
  <2>8. Full(purged, left, kept)
    BY <2>1, <2>3 DEF Full
  <2>9. Known(left, kept) /\ Closed(still, kept)
    BY <2>2, <2>4, <2>7 DEF Known, Closed
  <2> QED
    BY <2>8, <2>9
<1> QED
  BY <1>1, <1>5, <1>6 DEF purged, left

\* What IndexDocuments::execute_prefix_databases leaves in the prefix databases.
Renews(filed, old, chunk, db, previous, current) ==
  \A kind \in PrefixKinds :
    filed[kind] =
      IF kind \in WordKinds
      THEN WordPrefixDocids(old[kind], Source(chunk, kind), Source(db, kind),
                            current \ previous, current \cap previous, previous \ current)
      ELSE PairPrefixDocids(old[kind], Source(chunk, kind), Source(db, kind),
                            current \ previous, current \cap previous, previous \ current)

\* It keeps them in order.
LEMMA RenewedPrefixes ==
  ASSUME NEW db, NEW before, NEW chunk,
         \A kind \in PostingKinds : db[kind] = write_entries_into_database(before[kind], chunk[kind]),
         NEW old, NEW previous, NEW words, NEW after, IsFiniteSet(after), \A w \in after : IsWord(w),
         NEW filed, Renews(filed, old, chunk, db, previous, WordsPrefixesFst(after)),
         Sound(before, old), \A kind \in WordKinds : \A x \in chunk[kind] : IsWord(x[1][1])
  PROVE  LET current == WordsPrefixesFst(after) IN
         /\ Sound(db, filed)
         /\ /\ Full(before, old, previous) /\ Known(old, previous) /\ Closed(words, previous)
            /\ db["exact_word_docids"] = {}
            => Full(db, filed, current) /\ Known(filed, current) /\ Closed(after, current)
<1> DEFINE current == WordsPrefixesFst(after)
           new == current \ previous
           common == current \cap previous
           del == previous \ current
<1>1. \A kind \in PrefixKinds : Source(db, kind) = Source(before, kind) \cup Source(chunk, kind)
  BY SourceUnion
<1>2. \A kind \in WordKinds : kind \in PrefixKinds /\ Source(chunk, kind) = chunk[kind]
  BY DEF PrefixKinds, WordKinds, Source
<1>3. Closed(after, current)
  BY FstClosed
<1> HIDE DEF current
<1>4. ASSUME NEW kind \in PrefixKinds
      PROVE  filed[kind] =
               IF kind \in WordKinds
               THEN WordPrefixDocids(old[kind], Source(chunk, kind),
                                     Source(before, kind) \cup Source(chunk, kind), new, common, del)
               ELSE PairPrefixDocids(old[kind], Source(chunk, kind),
                                     Source(before, kind) \cup Source(chunk, kind), new, common, del)
  BY <1>1, Zenon DEF Renews, current
<1>5. Sound(db, filed)
  <2>1. \A kind \in PrefixKinds :
          /\ From(old[kind], Source(before, kind))
          /\ kind \notin WordKinds => \A x \in old[kind] : Len(x[1][1]) <= MaxPairPrefixLength
    BY SoundFacts
  <2> HIDE DEF new, common, del
  <2>2. ASSUME NEW kind \in PrefixKinds
        PROVE  /\ From(filed[kind], Source(db, kind))
               /\ kind \notin WordKinds =>
                    \A x \in filed[kind] : Len(x[1][1]) <= MaxPairPrefixLength
    <3>1. CASE kind \in WordKinds
      BY <1>1, <1>4, <2>1, <3>1, WordFrom
    <3>2. CASE kind \notin WordKinds
      BY <1>1, <1>4, <2>1, <3>2, PairFrom
    <3> QED
      BY <3>1, <3>2
  <2> QED
    BY <2>2, SoundFacts
<1>6. ASSUME Full(before, old, previous), Known(old, previous), Closed(words, previous),
             db["exact_word_docids"] = {}
      PROVE  Full(db, filed, current) /\ Known(filed, current)
  <2>1. \A kind \in PrefixKinds :
          All(old[kind], Source(before, kind),
              IF kind \in WordKinds THEN previous ELSE Short(previous))
    BY <1>6, FullFacts
  <2>2. \A p \in previous \cap current : IsWord(p) /\ <<p[1]>> \in previous \cap current
    BY <1>3, <1>6 DEF Closed
  <2>3. ASSUME NEW kind \in PrefixKinds
        PROVE  All(filed[kind], Source(db, kind),
                   IF kind \in WordKinds THEN current ELSE Short(current))
    <3>1. CASE kind \in WordKinds
      <4>1. \A kd \in Source(chunk, kind) : IsWord(kd[1][1])
        BY <1>2, <3>1
      <4>2. All(old[kind], Source(before, kind), previous)
        BY <2>1, <3>1
      <4> DEFINE o == old[kind]
                 b == Source(before, kind)
                 c == Source(chunk, kind)
      <4> HIDE DEF o, b, c
      <4>3. All(WordPrefixDocids(o, c, b \cup c, current \ previous, current \cap previous,
                                 previous \ current), b \cup c, current)
        BY <2>2, <4>1, <4>2, WordAll DEF o, b, c
      <4> QED
        BY <1>1, <1>4, <3>1, <4>3 DEF o, b, c
    <3>2. CASE kind \notin WordKinds
      <4>1. All(old[kind], Source(before, kind), Short(previous))
        BY <2>1, <3>2
      <4> DEFINE o == old[kind]
                 b == Source(before, kind)
                 c == Source(chunk, kind)
      <4> HIDE DEF o, b, c
      <4>2. All(PairPrefixDocids(o, c, b \cup c, current \ previous, current \cap previous,
                                 previous \ current), b \cup c, Short(current))
        BY <4>1, PairAll DEF o, b, c
      <4> QED
        BY <1>1, <1>4, <3>2, <4>2 DEF o, b, c
    <3> QED
      BY <3>1, <3>2
  <2>4. Full(db, filed, current)
    BY <2>3, FullFacts
  <2>5. filed["exact_word_docids"] = {}
    <3> DEFINE kind == "exact_word_docids"
    <3>1. kind \in PrefixKinds /\ kind \in WordKinds /\ Source(db, kind) = {}
      BY <1>6 DEF PrefixKinds, WordKinds, Source
    <3>2. From(filed[kind], {})
      BY <1>5, <3>1, SoundFacts
    <3> QED
      BY <3>2 DEF From
  <2>6. ASSUME NEW x \in filed["word_docids"] PROVE x[1][1] \in current
    <3> DEFINE kind == "word_docids"
    <3>1. kind \in PrefixKinds /\ kind \in WordKinds
      BY DEF PrefixKinds, WordKinds
    <3>2. \/ x \in old[kind] /\ x[1][1] \notin del
          \/ Grouped(x, Source(chunk, kind), common)
          \/ Abridged(x, Source(before, kind) \cup Source(chunk, kind), new)
      <4>1. x \in WordPrefixDocids(old[kind], Source(chunk, kind),
                                   Source(before, kind) \cup Source(chunk, kind), new, common, del)
        BY <1>4, <2>6, <3>1
      <4> HIDE DEF new, common, del, kind
      <4> QED
        BY <4>1, WordPrefixMembers
    <3>3. CASE x \in old[kind] /\ x[1][1] \notin del
      BY <1>6, <3>3 DEF Known
    <3>4. CASE Grouped(x, Source(chunk, kind), common)
      <4>1. \A w : GroupOf(w, common) \subseteq common
        BY DEF GroupOf
      <4> HIDE DEF common
      <4>2. PICK p \in common : \E kd : x = At(kd, p)
        BY <3>4, <4>1 DEF Grouped
      <4> QED
        BY <4>2, AtPrefix DEF common
    <3>5. CASE Abridged(x, Source(before, kind) \cup Source(chunk, kind), new)
      BY <3>5, AtPrefix DEF Abridged
    <3> QED
      BY <3>2, <3>3, <3>4, <3>5
  <2> QED
    BY <2>4, <2>5, <2>6 DEF Known
<1> QED
  BY <1>3, <1>5, <1>6 DEF current

-----------------------------------------------------------------------------
(* The invariant of an index.                                                *)

\* The databases of an index.
IsIndex(ix) ==
  DOMAIN ix = {"fields_ids_map", "documents", "documents_ids", "soft_deleted", "hard", "soft",
               "distribution", "db", "words_fst", "prefixes_fst", "prefix_db", "settings"}

IsSettings(s) == s = [searchable |-> s.searchable, exact_attributes |-> s.exact_attributes,
                      stop_words |-> s.stop_words, faceted |-> s.faceted]

\* The documents are under the ids of the map, and are the live and the soft-deleted ones.
Stores(ix) ==
  /\ Distinct(ix.fields_ids_map)
  /\ IsFunction(ix.documents)
  /\ \A d \in DOMAIN ix.documents : Encoded(ix.documents[d], ix.fields_ids_map)
  /\ ix.documents_ids \cup ix.soft_deleted = DOMAIN ix.documents
  /\ ix.documents_ids \cap ix.soft_deleted = {}
  /\ DOMAIN ix.documents \subseteq 0 .. MaxDocId

\* The user's identifier id leads to the live document d.
Leads(ix, id, d) == id \in DOMAIN ToFst(ix) /\ ToFst(ix)[id] = d /\ d \in ix.documents_ids

\* Every live document has one identifier, and no identifier leads outside the documents.
Identifies(ix) ==
  /\ IsFunction(ix.hard) /\ IsFunction(ix.soft)
  /\ DOMAIN ToFst(ix) \subseteq ExternalIds
  /\ \A id \in DOMAIN ToFst(ix) : ToFst(ix)[id] \in DOMAIN ix.documents
  /\ \A d \in ix.documents_ids : \E id : Leads(ix, id, d)
  /\ \A x, y, d : Leads(ix, x, d) /\ Leads(ix, y, d) => x = y

Files(ix) ==
  /\ ix.db = Postings(ix.documents, ix.settings, ix.fields_ids_map)
  /\ ix.words_fst = WordsOf(ix.db["word_docids"]) \cup WordsOf(ix.db["exact_word_docids"])

Clean(ix) ==
  ix.documents_ids = {} =>
    /\ ix.soft_deleted = {}
    /\ \A kind \in PostingKinds : ix.db[kind] = {}
    /\ ix.words_fst = {} /\ ix.prefixes_fst = {}
    /\ \A kind \in PrefixKinds : ix.prefix_db[kind] = {}

\* The prefix databases hold nothing else than what they abridge; and all of it, unless a
\* searchable field is exact.
Prefixed(ix) ==
  /\ DOMAIN ix.prefix_db = PrefixKinds
  /\ Sound(ix.db, ix.prefix_db)
  /\ ~Exact(ix.settings, ix.fields_ids_map) =>
       /\ Full(ix.db, ix.prefix_db, ix.prefixes_fst)
       /\ Known(ix.prefix_db, ix.prefixes_fst)
       /\ Closed(ix.words_fst, ix.prefixes_fst)

Good(ix) ==
  /\ IsIndex(ix) /\ IsSettings(ix.settings)
  /\ Stores(ix) /\ Identifies(ix) /\ Files(ix) /\ Clean(ix) /\ Prefixed(ix)
  /\ Counts(ix.distribution, ix.documents, ix.documents_ids, ix.fields_ids_map)

\* Prefix databases that are empty.
LEMMA PrefixedNothing ==
  ASSUME NEW ix, DOMAIN ix.prefix_db = PrefixKinds, ix.prefixes_fst = {},
         \A kind \in PrefixKinds : ix.prefix_db[kind] = {}
  PROVE  Prefixed(ix)
<1>1. {"word_docids", "exact_word_docids"} \subseteq PrefixKinds
  BY DEF PrefixKinds, WordKinds
<1> QED
  BY <1>1 DEF Prefixed, Sound, Full, Known, Closed

\* A field that is exact stays so in a map with more names.
LEMMA ExactExtended ==
  ASSUME NEW names, Distinct(names), NEW longer, Distinct(longer), Extends(longer, names),
         NEW settings, Exact(settings, names)
  PROVE  Exact(settings, longer)
<1>1. Len(names) \in Nat /\ Len(longer) \in Nat
  BY DEF Distinct
<1>2. PICK fid \in 1 .. Len(names) : fid \in SearchableIds(settings, names)
                                      /\ fid \in IdsOf(settings.exact_attributes, names)
  BY DEF Exact, IdsOf
<1>3. fid \in 1 .. Len(longer) /\ longer[fid] = names[fid]
  BY <1>1, <1>2 DEF Extends
<1>4. fid \in SearchableIds(settings, longer)
  BY <1>2, <1>3 DEF SearchableIds
<1>5. fid \in IdsOf(settings.exact_attributes, longer)
  BY <1>2, <1>3 DEF IdsOf
<1> QED
  BY <1>4, <1>5 DEF Exact

\* What get finds.
LEMMA GetFacts ==
  ASSUME NEW ix, Stores(ix), Identifies(ix), NEW id
  PROVE  /\ get(ix, id) # None => Leads(ix, id, get(ix, id)) /\ id \in ExternalIds
         /\ \A d : Leads(ix, id, d) => get(ix, id) = d /\ d # None
<1>1. \A d \in DOMAIN ix.documents : d # None
  BY IndexBounds DEF Stores, None
<1>2. \A d : d \in ix.documents_ids => d \notin ix.soft_deleted /\ d \in DOMAIN ix.documents
  BY DEF Stores
<1>3. \A d \in DOMAIN ix.documents : d \notin ix.soft_deleted => d \in ix.documents_ids
  BY DEF Stores
<1> QED
  BY <1>1, <1>2, <1>3 DEF get, Leads, Identifies

\* The index without documents: ClearDocuments::execute.
LEMMA ClearedFields ==
  ASSUME NEW ix, IsIndex(ix)
  PROVE  LET r == Cleared(ix) IN
         /\ IsIndex(r)
         /\ r.fields_ids_map = ix.fields_ids_map /\ r.settings = ix.settings
         /\ r.documents = <<>> /\ r.documents_ids = {} /\ r.soft_deleted = {}
         /\ r.hard = <<>> /\ r.soft = <<>> /\ r.distribution = <<>>
         /\ r.db = EmptyRelations(PostingKinds) /\ r.words_fst = {}
         /\ r.prefixes_fst = {} /\ r.prefix_db = EmptyRelations(PrefixKinds)
  BY DEF IsIndex, Cleared

\* The fields of no document.
LEMMA CountsNothing ==
  ASSUME NEW documents, NEW names, Distinct(names)
  PROVE  Counts(<<>>, documents, {}, names)
<1> DEFINE r == Distribution([f \in Range(names) |-> CountedIn(documents, {}, names, f)])
<1>1. \A f : CountedIn(documents, {}, names, f) = 0
  <2> TAKE f
  <2>1. {d \in {} : \E fid \in DOMAIN documents[d] : names[fid] = f} = {}
    OBVIOUS
  <2> QED
    BY <2>1, FS_EmptySet DEF CountedIn
<1>2. IsFunction(r) /\ DOMAIN r = {}
  BY <1>1 DEF Distribution, Restrict, IsFunction
<1> HIDE DEF r
<1>3. r = <<>>
  BY <1>2, NothingFacts
<1> QED
  BY <1>3 DEF r, Counts

\* A cleared index is in order, and no identifier leads anywhere.
LEMMA ClearedGood ==
  ASSUME NEW ix, IsIndex(ix), IsSettings(ix.settings), Distinct(ix.fields_ids_map)
  PROVE  Good(Cleared(ix)) /\ \A id, d : ~Leads(Cleared(ix), id, d)
<1> DEFINE r == Cleared(ix)
<1>1. /\ IsIndex(r) /\ r.fields_ids_map = ix.fields_ids_map /\ r.settings = ix.settings
      /\ r.documents = <<>> /\ r.documents_ids = {} /\ r.soft_deleted = {}
      /\ r.hard = <<>> /\ r.soft = <<>> /\ r.distribution = <<>>
      /\ r.db = EmptyRelations(PostingKinds) /\ r.words_fst = {}
      /\ r.prefixes_fst = {} /\ r.prefix_db = EmptyRelations(PrefixKinds)
  BY ClearedFields
<1> HIDE DEF r
<1>2. IsFunction(r.documents) /\ DOMAIN r.documents = {}
  BY <1>1, NothingFacts
<1>3. IsFunction(r.hard) /\ IsFunction(r.soft) /\ DOMAIN r.hard = {} /\ DOMAIN r.soft = {}
  BY <1>1, NothingFacts
<1>4. DOMAIN ToFst(r) = {}
  BY <1>3 DEF ToFst, Over
<1>5. Stores(r)
  BY <1>1, <1>2 DEF Stores
<1>6. Identifies(r)
  BY <1>1, <1>3, <1>4 DEF Identifies, Leads
<1>7. Files(r)
  <2>1. r.db = Postings(r.documents, r.settings, r.fields_ids_map)
    BY <1>1, <1>2, PostingsNothing
  <2>2. r.db["word_docids"] = {} /\ r.db["exact_word_docids"] = {}
    BY <1>1 DEF EmptyRelations, PostingKinds, WordKinds
  <2> QED
    BY <1>1, <2>1, <2>2 DEF Files, WordsOf
<1>8. Clean(r)
  BY <1>1 DEF Clean, EmptyRelations
<1>9. Counts(r.distribution, r.documents, r.documents_ids, r.fields_ids_map)
  BY <1>1, CountsNothing
<1>10. \A id, d : ~Leads(r, id, d)
  BY <1>4 DEF Leads
<1>11. Prefixed(r)
  <2>1. DOMAIN r.prefix_db = PrefixKinds /\ \A kind \in PrefixKinds : r.prefix_db[kind] = {}
    BY <1>1 DEF EmptyRelations
  <2> QED
    BY <1>1, <2>1, PrefixedNothing
<1> QED
  BY <1>1, <1>5, <1>6, <1>7, <1>8, <1>9, <1>10, <1>11 DEF Good, r

-----------------------------------------------------------------------------
(* Deletion.                                                                 *)

\* What a deletion may change: the documents of gone are no longer there.
Leaves(r, ix, gone) ==
  /\ r.fields_ids_map = ix.fields_ids_map /\ r.settings = ix.settings
  /\ r.documents_ids = ix.documents_ids \ gone
  /\ DOMAIN r.documents \subseteq DOMAIN ix.documents
  /\ \A d \in r.documents_ids : r.documents[d] = ix.documents[d]
  /\ \A id, d : Leads(r, id, d) <=> Leads(ix, id, d) /\ d \notin gone

\* The documents that are marked as deleted.
Marked(ix, gone) ==
  [ix EXCEPT !.documents_ids = @ \ gone,
             !.soft_deleted = @ \cup gone,
             !.distribution = Distribution(
                [f \in DOMAIN @ |-> @[f] - CountedIn(ix.documents, gone, ix.fields_ids_map, f)])]

\* What marking changes.
LEMMA MarkedFields ==
  ASSUME NEW ix, IsIndex(ix), NEW gone
  PROVE  LET r == Marked(ix, gone) IN
         /\ IsIndex(r)
         /\ r.fields_ids_map = ix.fields_ids_map /\ r.settings = ix.settings
         /\ r.documents = ix.documents /\ r.hard = ix.hard /\ r.soft = ix.soft
         /\ r.db = ix.db /\ r.words_fst = ix.words_fst
         /\ r.prefixes_fst = ix.prefixes_fst /\ r.prefix_db = ix.prefix_db
         /\ r.documents_ids = ix.documents_ids \ gone
         /\ r.soft_deleted = ix.soft_deleted \cup gone
         /\ r.distribution = Distribution(
              [f \in DOMAIN ix.distribution |->
                 ix.distribution[f] - CountedIn(ix.documents, gone, ix.fields_ids_map, f)])
  BY DEF IsIndex, Marked

\* The distribution is brought up to date when documents are marked.
LEMMA MarkedCounts ==
  ASSUME NEW docids \in SUBSET (0 .. MaxDocId), NEW documents, NEW names, Distinct(names),
         \A d \in docids : Encoded(documents[d], names),
         NEW distribution, Counts(distribution, documents, docids, names),
         NEW gone \in SUBSET docids
  PROVE  Counts(Distribution([f \in DOMAIN distribution |->
                                distribution[f] - CountedIn(documents, gone, names, f)]),
                documents, docids \ gone, names)
<1> DEFINE count == [f \in DOMAIN distribution |->
                       distribution[f] - CountedIn(documents, gone, names, f)]
<1>1. IsFunction(count) /\ DOMAIN count = DOMAIN distribution
  BY DEF IsFunction
<1>2. docids \ gone \in SUBSET (0 .. MaxDocId) /\ \A d \in docids \ gone : Encoded(documents[d], names)
  OBVIOUS
<1>3. \A f : /\ CountedIn(documents, docids \ gone, names, f)
                  = CountedIn(documents, docids, names, f) - CountedIn(documents, gone, names, f)
             /\ CountedIn(documents, gone, names, f) \in Nat
             /\ CountedIn(documents, docids, names, f) \in Nat
  <2> TAKE f
  <2>1. gone \in SUBSET (0 .. MaxDocId)
    OBVIOUS
  <2>2. CountedIn(documents, gone, names, f) \in Nat
    BY <2>1, CountFacts
  <2>3. CountedIn(documents, docids, names, f) \in Nat
    BY CountFacts
  <2>4. CountedIn(documents, docids \ gone, names, f)
          = CountedIn(documents, docids, names, f) - CountedIn(documents, gone, names, f)
    BY CountDifference
  <2> QED
    BY <2>2, <2>3, <2>4
<1>4. \A f : /\ f \in DOMAIN distribution <=> CountedIn(documents, docids, names, f) > 0
             /\ f \in DOMAIN distribution => distribution[f] = CountedIn(documents, docids, names, f)
  BY CountOf
<1>5. \A f \in DOMAIN count : count[f] = CountedIn(documents, docids \ gone, names, f)
  BY <1>3, <1>4
<1>6. \A f : CountedIn(documents, docids \ gone, names, f) > 0 => f \in DOMAIN count
  BY <1>1, <1>3, <1>4
<1> HIDE DEF count
<1>7. Counts(Distribution(count), documents, docids \ gone, names)
  BY <1>1, <1>2, <1>5, <1>6, CountsExactly
<1> QED
  BY <1>7 DEF count

\* Marking some of the documents, and not all of them.
LEMMA MarkedGood ==
  ASSUME NEW ix, Good(ix), NEW gone \in SUBSET ix.documents_ids, gone # ix.documents_ids
  PROVE  Good(Marked(ix, gone)) /\ Leaves(Marked(ix, gone), ix, gone)
<1> DEFINE r == Marked(ix, gone)
<1>1. /\ IsIndex(ix) /\ IsSettings(ix.settings) /\ Stores(ix) /\ Identifies(ix) /\ Files(ix)
      /\ Prefixed(ix)
      /\ Counts(ix.distribution, ix.documents, ix.documents_ids, ix.fields_ids_map)
  BY DEF Good
<1>2. /\ IsIndex(r)
      /\ r.fields_ids_map = ix.fields_ids_map /\ r.settings = ix.settings
      /\ r.documents = ix.documents /\ r.hard = ix.hard /\ r.soft = ix.soft
      /\ r.db = ix.db /\ r.words_fst = ix.words_fst
      /\ r.prefixes_fst = ix.prefixes_fst /\ r.prefix_db = ix.prefix_db
      /\ r.documents_ids = ix.documents_ids \ gone
      /\ r.soft_deleted = ix.soft_deleted \cup gone
      /\ r.distribution = Distribution(
           [f \in DOMAIN ix.distribution |->
              ix.distribution[f] - CountedIn(ix.documents, gone, ix.fields_ids_map, f)])
  BY <1>1, MarkedFields
<1> HIDE DEF r
<1>3. ToFst(r) = ToFst(ix)
  BY <1>2 DEF ToFst
<1>4. Stores(r)
  BY <1>1, <1>2 DEF Stores
<1>5. \A id, d : Leads(r, id, d) <=> Leads(ix, id, d) /\ d \notin gone
  BY <1>2, <1>3 DEF Leads
<1>6. Identifies(r)
  BY <1>1, <1>2, <1>3, <1>5 DEF Identifies
<1>7. Files(r)
  BY <1>1, <1>2 DEF Files
<1>8. Clean(r)
  BY <1>2 DEF Clean
<1>9. Counts(r.distribution, r.documents, r.documents_ids, r.fields_ids_map)
  <2>1. /\ ix.documents_ids \in SUBSET (0 .. MaxDocId) /\ Distinct(ix.fields_ids_map)
        /\ \A d \in ix.documents_ids : Encoded(ix.documents[d], ix.fields_ids_map)
    BY <1>1 DEF Stores
  <2>2. Counts(Distribution([f \in DOMAIN ix.distribution |->
                 ix.distribution[f] - CountedIn(ix.documents, gone, ix.fields_ids_map, f)]),
               ix.documents, ix.documents_ids \ gone, ix.fields_ids_map)
    BY <1>1, <2>1, MarkedCounts
  <2> QED
    BY <1>2, <2>2
<1>10. Leaves(r, ix, gone)
  BY <1>2, <1>5 DEF Leaves
<1>11. Prefixed(r)
  BY <1>1, <1>2, Zenon DEF Prefixed
<1> QED
  BY <1>1, <1>2, <1>4, <1>6, <1>7, <1>8, <1>9, <1>10, <1>11 DEF Good, r

\* The databases after the soft-deleted documents were purged.
LEMMA HardDeleteFields ==
  ASSUME NEW ix, IsIndex(ix)
  PROVE  LET r == HardDelete(ix)
             db == Purged(ix.db, ix.soft_deleted)
             emptied(kind) == WordsOf(ix.db[kind]) \ WordsOf(db[kind])
             left == Purged(ix.prefix_db, ix.soft_deleted)
             lost(kind) == WordsOf(ix.prefix_db[kind]) \ WordsOf(left[kind])
         IN
         /\ IsIndex(r)
         /\ r.fields_ids_map = ix.fields_ids_map /\ r.settings = ix.settings
         /\ r.documents = Restrict(ix.documents, DOMAIN ix.documents \ ix.soft_deleted)
         /\ r.documents_ids = ix.documents_ids /\ r.soft_deleted = {}
         /\ r.hard = Restrict(ToFst(ix), {id \in DOMAIN ToFst(ix) :
                                            ToFst(ix)[id] \notin ix.soft_deleted})
         /\ r.soft = <<>> /\ r.distribution = ix.distribution /\ r.db = db
         /\ r.words_fst = ix.words_fst \
              ((emptied("word_docids") \cup emptied("exact_word_docids"))
                 \ (WordsOf(db["word_docids"]) \cup WordsOf(db["exact_word_docids"])))
         /\ r.prefix_db = left
         /\ r.prefixes_fst = ix.prefixes_fst \ (lost("word_docids") \cup lost("exact_word_docids"))
<1> DEFINE purged == delete_soft_deleted_documents_ids_from_fsts(ix)
<1>1. /\ IsIndex(purged)
      /\ purged.fields_ids_map = ix.fields_ids_map /\ purged.settings = ix.settings
      /\ purged.documents_ids = ix.documents_ids /\ purged.distribution = ix.distribution
      /\ purged.words_fst = ix.words_fst /\ purged.soft = <<>>
      /\ purged.prefixes_fst = ix.prefixes_fst
      /\ purged.hard = Restrict(ToFst(ix), {id \in DOMAIN ToFst(ix) :
                                              ToFst(ix)[id] \notin ix.soft_deleted})
  BY DEF IsIndex, delete_soft_deleted_documents_ids_from_fsts
<1> HIDE DEF purged
<1> QED
  BY <1>1 DEF HardDelete, IsIndex, purged

\* The documents, and the count of their fields, are the same when soft-deleted ones leave.
LEMMA CountsSame ==
  ASSUME NEW distribution, NEW documents, NEW others, NEW docids, NEW names,
         Counts(distribution, documents, docids, names),
         \A d \in docids : documents[d] = others[d]
  PROVE  Counts(distribution, others, docids, names)
<1>1. \A f : CountedIn(documents, docids, names, f) = CountedIn(others, docids, names, f)
  <2> TAKE f
  <2>1. \A d \in docids : HasField(documents, names, f, d) <=> HasField(others, names, f, d)
    BY DEF HasField
  <2> QED
    BY <2>1, CountSame
<1>2. [f \in Range(names) |-> CountedIn(documents, docids, names, f)]
        = [f \in Range(names) |-> CountedIn(others, docids, names, f)]
  BY <1>1
<1> QED
  BY <1>2 DEF Counts

\* The words that are left in the dictionary.
LEMMA WordsLeft ==
  ASSUME NEW relation, NEW gone
  PROVE  WordsOf(Without(relation, gone)) \subseteq WordsOf(relation)
  BY DEF WordsOf, Without

\* A purge of an index with live documents: DeleteDocuments::execute_inner.
LEMMA HardDeleteGood ==
  ASSUME NEW ix, Good(ix), ix.documents_ids # {}
  PROVE  Good(HardDelete(ix)) /\ Leaves(HardDelete(ix), ix, {})
<1> DEFINE r == HardDelete(ix)
           db == Purged(ix.db, ix.soft_deleted)
           emptied(kind) == WordsOf(ix.db[kind]) \ WordsOf(db[kind])
           left == Purged(ix.prefix_db, ix.soft_deleted)
           lost(kind) == WordsOf(ix.prefix_db[kind]) \ WordsOf(left[kind])
<1>1. /\ IsIndex(ix) /\ IsSettings(ix.settings) /\ Stores(ix) /\ Identifies(ix) /\ Files(ix)
      /\ Prefixed(ix)
      /\ Counts(ix.distribution, ix.documents, ix.documents_ids, ix.fields_ids_map)
  BY DEF Good
<1>2. /\ IsIndex(r)
      /\ r.fields_ids_map = ix.fields_ids_map /\ r.settings = ix.settings
      /\ r.documents = Restrict(ix.documents, DOMAIN ix.documents \ ix.soft_deleted)
      /\ r.documents_ids = ix.documents_ids /\ r.soft_deleted = {}
      /\ r.hard = Restrict(ToFst(ix), {id \in DOMAIN ToFst(ix) :
                                         ToFst(ix)[id] \notin ix.soft_deleted})
      /\ r.soft = <<>> /\ r.distribution = ix.distribution /\ r.db = db
      /\ r.words_fst = ix.words_fst \
           ((emptied("word_docids") \cup emptied("exact_word_docids"))
              \ (WordsOf(db["word_docids"]) \cup WordsOf(db["exact_word_docids"])))
      /\ r.prefix_db = left
      /\ r.prefixes_fst = ix.prefixes_fst \ (lost("word_docids") \cup lost("exact_word_docids"))
  BY <1>1, HardDeleteFields
<1>3. /\ DOMAIN ix.db = PostingKinds
      /\ db["word_docids"] = Without(ix.db["word_docids"], ix.soft_deleted)
      /\ db["exact_word_docids"] = Without(ix.db["exact_word_docids"], ix.soft_deleted)
  <2>1. DOMAIN ix.db = PostingKinds
    BY <1>1, PostingsFacts DEF Files
  <2> QED
    BY <2>1 DEF Purged, PostingKinds, WordKinds
<1>4. r.words_fst = WordsOf(db["word_docids"]) \cup WordsOf(db["exact_word_docids"])
  <2>1. /\ WordsOf(db["word_docids"]) \subseteq WordsOf(ix.db["word_docids"])
        /\ WordsOf(db["exact_word_docids"]) \subseteq WordsOf(ix.db["exact_word_docids"])
    BY <1>3, WordsLeft
  <2>2. ix.words_fst = WordsOf(ix.db["word_docids"]) \cup WordsOf(ix.db["exact_word_docids"])
    BY <1>1 DEF Files
  <2> HIDE DEF db, r
  <2> QED
    BY <1>2, <2>1, <2>2
<1> HIDE DEF r
<1>5. /\ IsFunction(r.documents)
      /\ \A d : d \in DOMAIN r.documents <=> d \in ix.documents_ids
      /\ \A d \in DOMAIN r.documents : r.documents[d] = ix.documents[d] /\ d \in DOMAIN ix.documents
  <2>1. DOMAIN ix.documents \ ix.soft_deleted = ix.documents_ids
    BY <1>1 DEF Stores
  <2> QED
    BY <1>1, <1>2, <2>1 DEF Restrict, IsFunction, Stores
<1>6. Stores(r)
  BY <1>1, <1>2, <1>5 DEF Stores
<1>7. Files(r)
  <2>1. r.db = Postings(r.documents, r.settings, r.fields_ids_map)
    BY <1>1, <1>2, PostingsRestrict DEF Files
  <2> QED
    BY <1>2, <1>4, <2>1 DEF Files
<1>8. /\ IsFunction(r.hard) /\ IsFunction(r.soft) /\ ToFst(r) = r.hard
      /\ DOMAIN r.hard = {id \in DOMAIN ToFst(ix) : ToFst(ix)[id] \notin ix.soft_deleted}
      /\ \A id \in DOMAIN r.hard : r.hard[id] = ToFst(ix)[id]
  <2>1. /\ IsFunction(r.hard)
        /\ DOMAIN r.hard = {id \in DOMAIN ToFst(ix) : ToFst(ix)[id] \notin ix.soft_deleted}
        /\ \A id \in DOMAIN r.hard : r.hard[id] = ToFst(ix)[id]
    BY <1>2 DEF Restrict, IsFunction
  <2>2. IsFunction(r.soft) /\ DOMAIN r.soft = {}
    BY <1>2, NothingFacts
  <2>3. ToFst(r) = r.hard
    BY <2>1, <2>2, OverNothing DEF ToFst
  <2> QED
    BY <2>1, <2>2, <2>3
<1>9. \A id, d : Leads(r, id, d) <=> Leads(ix, id, d)
  BY <1>1, <1>2, <1>8 DEF Leads, Stores
<1>10. Identifies(r)
  <2>1. \A id \in DOMAIN r.hard : r.hard[id] \in ix.documents_ids
    BY <1>1, <1>8 DEF Identifies, Stores
  <2> QED
    BY <1>1, <1>2, <1>5, <1>8, <1>9, <2>1 DEF Identifies
<1>11. Clean(r)
  BY <1>2 DEF Clean
<1>12. Counts(r.distribution, r.documents, r.documents_ids, r.fields_ids_map)
  <2>1. \A d \in ix.documents_ids : ix.documents[d] = r.documents[d]
    BY <1>5
  <2>2. Counts(ix.distribution, r.documents, ix.documents_ids, ix.fields_ids_map)
    BY <1>1, <2>1, CountsSame
  <2> QED
    BY <1>2, <2>2
<1>13. Leaves(r, ix, {})
  BY <1>2, <1>5, <1>9 DEF Leaves
<1>14. Prefixed(r)
  <2> DEFINE words == WordsOf(ix.db["word_docids"]) \cup WordsOf(ix.db["exact_word_docids"])
             still == WordsOf(db["word_docids"]) \cup WordsOf(db["exact_word_docids"])
             kept == ix.prefixes_fst \ (lost("word_docids") \cup lost("exact_word_docids"))
  <2>1. /\ DOMAIN ix.prefix_db = PrefixKinds /\ Sound(ix.db, ix.prefix_db)
        /\ ~Exact(ix.settings, ix.fields_ids_map) =>
             /\ Full(ix.db, ix.prefix_db, ix.prefixes_fst)
             /\ Known(ix.prefix_db, ix.prefixes_fst)
             /\ Closed(words, ix.prefixes_fst)
    BY <1>1, Zenon DEF Prefixed, Files
  <2>2. Worded(ix.db, ix.settings, ix.fields_ids_map)
    BY <1>1, PostingsWorded DEF Files, Stores
  <2>3. /\ \A x \in ix.db["word_docids"] : IsWord(x[1][1])
        /\ ~Exact(ix.settings, ix.fields_ids_map) => ix.db["exact_word_docids"] = {}
    BY <2>2 DEF Worded, WordKinds
  <2>4. /\ DOMAIN left = PrefixKinds /\ Sound(db, left)
        /\ /\ Full(ix.db, ix.prefix_db, ix.prefixes_fst) /\ Known(ix.prefix_db, ix.prefixes_fst)
           /\ Closed(words, ix.prefixes_fst) /\ ix.db["exact_word_docids"] = {}
           /\ \A x \in ix.db["word_docids"] : IsWord(x[1][1])
           => Full(db, left, kept) /\ Known(left, kept) /\ Closed(still, kept)
    BY <1>3, <2>1, PurgedPrefixes
  <2> HIDE DEF db, left, lost, words, still, kept
  <2>5. /\ r.db = db /\ r.prefix_db = left /\ r.prefixes_fst = kept /\ r.words_fst = still
        /\ r.settings = ix.settings /\ r.fields_ids_map = ix.fields_ids_map
    BY <1>2, <1>4 DEF still, kept
  <2> QED
    BY <2>1, <2>3, <2>4, <2>5 DEF Prefixed
<1> QED
  BY <1>1, <1>2, <1>6, <1>7, <1>10, <1>11, <1>12, <1>13, <1>14 DEF Good, r

\* Every deletion, soft or hard, of some documents or of all of them.
LEMMA DeletedGood ==
  ASSUME NEW ix, Good(ix), NEW gone \in SUBSET ix.documents_ids, NEW small
  PROVE  Good(Deleted(ix, gone, small)) /\ Leaves(Deleted(ix, gone, small), ix, gone)
<1> DEFINE marked == Marked(ix, gone)
           r == Deleted(ix, gone, small)
<1>1. /\ IsIndex(ix) /\ IsSettings(ix.settings) /\ Stores(ix) /\ Identifies(ix) /\ Clean(ix)
  BY DEF Good
<1>2. r = IF ix.documents_ids = {} THEN IF ix.soft_deleted = {} THEN ix ELSE Cleared(ix)
          ELSE IF Cardinality(ix.documents_ids) = Cardinality(gone) THEN Cleared(ix)
          ELSE IF SoftDeletion(marked, small) THEN marked
          ELSE HardDelete(marked)
  BY Zenon DEF Deleted, Marked
<1> HIDE DEF r
<1>3. CASE ix.documents_ids = {}
  <2>1. r = ix /\ gone = {}
    BY <1>1, <1>2, <1>3 DEF Clean
  <2> QED
    BY <2>1 DEF Leaves, r
<1>4. CASE ix.documents_ids # {} /\ Cardinality(ix.documents_ids) = Cardinality(gone)
  <2>1. gone = ix.documents_ids
    <3>1. ix.documents_ids \in SUBSET (0 .. MaxDocId)
      BY <1>1 DEF Stores
    <3>2. IsFiniteSet(ix.documents_ids)
      BY <3>1, CountFacts
    <3> QED
      BY <1>4, <3>2, FS_Subset
  <2>2. r = Cleared(ix)
    BY <1>2, <1>4
  <2>3. Good(r) /\ \A id, d : ~Leads(r, id, d)
    BY <1>1, <2>2, ClearedGood DEF Stores
  <2>4. \A id, d : Leads(ix, id, d) => d \in gone
    BY <2>1 DEF Leads
  <2>5. /\ r.fields_ids_map = ix.fields_ids_map /\ r.settings = ix.settings
        /\ r.documents_ids = {} /\ r.documents = <<>>
    BY <1>1, <2>2, ClearedFields
  <2>6. DOMAIN r.documents = {}
    BY <2>5, NothingFacts
  <2> QED
    BY <2>1, <2>3, <2>4, <2>5, <2>6 DEF Leaves, r
<1>5. CASE ix.documents_ids # {} /\ Cardinality(ix.documents_ids) # Cardinality(gone)
  <2>1. gone # ix.documents_ids
    BY <1>5
  <2>2. Good(marked) /\ Leaves(marked, ix, gone)
    BY <2>1, MarkedGood
  <2>3. CASE SoftDeletion(marked, small)
    <3>1. r = marked
      BY <1>2, <1>5, <2>3
    <3> QED
      BY <2>2, <3>1 DEF r
  <2>4. CASE ~SoftDeletion(marked, small)
    <3>1. r = HardDelete(marked)
      BY <1>2, <1>5, <2>4
    <3>2. marked.documents_ids # {}
      BY <2>1, <2>2 DEF Leaves
    <3> HIDE DEF marked
    <3>3. Good(r) /\ Leaves(r, marked, {})
      BY <2>2, <3>1, <3>2, HardDeleteGood
    <3>4. Leaves(r, ix, gone)
      BY <2>2, <3>3 DEF Leaves
    <3> QED
      BY <3>3, <3>4 DEF r
  <2> QED
    BY <2>3, <2>4
<1> QED
  BY <1>3, <1>4, <1>5

-----------------------------------------------------------------------------
(* The transaction that writes a batch: IndexDocuments::execute_raw.         *)

\* A distribution that is given by its values.
LEMMA CountsDirect ==
  ASSUME NEW docids \in SUBSET (0 .. MaxDocId), NEW documents, NEW names, Distinct(names),
         \A d \in docids : Encoded(documents[d], names),
         NEW count, IsFunction(count),
         \A f \in DOMAIN count : count[f] = CountedIn(documents, docids, names, f),
         \A f : CountedIn(documents, docids, names, f) > 0 <=> f \in DOMAIN count
  PROVE  Counts(count, documents, docids, names)
<1>1. Counts(Distribution(count), documents, docids, names)
  BY CountsExactly
<1>2. \A f \in DOMAIN count : count[f] > 0
  BY CountFacts
<1>3. {f \in DOMAIN count : count[f] > 0} = DOMAIN count
  BY <1>2
<1>4. Distribution(count) = count
  BY <1>3 DEF Distribution, Restrict, IsFunction
<1> QED
  BY <1>1, <1>4

\* An index without documents, under any map and any settings.
LEMMA EmptyGood ==
  ASSUME NEW ix, Good(ix), ix.documents_ids = {}, NEW r, IsIndex(r), IsSettings(r.settings),
         Distinct(r.fields_ids_map),
         r.documents = ix.documents, r.documents_ids = ix.documents_ids,
         r.soft_deleted = ix.soft_deleted, r.hard = ix.hard, r.soft = ix.soft,
         r.distribution = ix.distribution, r.db = ix.db, r.words_fst = ix.words_fst,
         r.prefixes_fst = ix.prefixes_fst, r.prefix_db = ix.prefix_db
  PROVE  Good(r) /\ DOMAIN r.documents = {} /\ \A id, d : Leads(r, id, d) <=> Leads(ix, id, d)
<1>1. /\ Stores(ix) /\ Identifies(ix) /\ Files(ix) /\ Clean(ix) /\ Prefixed(ix)
      /\ Counts(ix.distribution, ix.documents, ix.documents_ids, ix.fields_ids_map)
  BY DEF Good
<1>2. DOMAIN ix.documents = {}
  BY <1>1 DEF Clean, Stores
<1>3. ToFst(r) = ToFst(ix)
  BY DEF ToFst
<1>4. Stores(r)
  BY <1>1, <1>2 DEF Stores
<1>5. \A id, d : Leads(r, id, d) <=> Leads(ix, id, d)
  BY <1>3 DEF Leads
<1>6. Identifies(r)
  BY <1>1, <1>3, <1>5 DEF Identifies
<1>7. Files(r)
  <2>1. ix.db = EmptyRelations(PostingKinds)
    BY <1>1, <1>2, PostingsNothing DEF Files
  <2>2. r.db = Postings(r.documents, r.settings, r.fields_ids_map)
    BY <1>2, <2>1, PostingsNothing
  <2> QED
    BY <1>1, <2>2 DEF Files
<1>8. Clean(r)
  BY <1>1 DEF Clean
<1>9. Counts(r.distribution, r.documents, r.documents_ids, r.fields_ids_map)
  <2>1. Counts(<<>>, ix.documents, {}, ix.fields_ids_map)
    BY <1>1, CountsNothing DEF Stores
  <2>2. ix.distribution = <<>>
    BY <1>1, <2>1, Zenon DEF Counts
  <2>3. Counts(<<>>, r.documents, {}, r.fields_ids_map)
    BY CountsNothing
  <2> QED
    BY <2>2, <2>3
<1>10. Prefixed(r)
  <2>1. /\ DOMAIN ix.prefix_db = PrefixKinds /\ ix.prefixes_fst = {}
        /\ \A kind \in PrefixKinds : ix.prefix_db[kind] = {}
    BY <1>1 DEF Clean, Prefixed
  <2> QED
    BY <2>1, PrefixedNothing
<1> QED
  BY <1>2, <1>4, <1>5, <1>6, <1>7, <1>8, <1>9, <1>10 DEF Good

\* The index under a map with more names.
LEMMA ExtendedGood ==
  ASSUME NEW ix, Good(ix), NEW longer, Distinct(longer), Extends(longer, ix.fields_ids_map)
  PROVE  LET r == [ix EXCEPT !.fields_ids_map = longer]
         IN Good(r) /\ \A id, d : Leads(r, id, d) <=> Leads(ix, id, d)
<1> DEFINE r == [ix EXCEPT !.fields_ids_map = longer]
           names == ix.fields_ids_map
<1>1. /\ IsIndex(ix) /\ IsSettings(ix.settings)
      /\ Stores(ix) /\ Identifies(ix) /\ Files(ix) /\ Clean(ix) /\ Prefixed(ix)
      /\ Counts(ix.distribution, ix.documents, ix.documents_ids, ix.fields_ids_map)
  BY DEF Good
<1>2. /\ IsIndex(r) /\ r.fields_ids_map = longer /\ r.settings = ix.settings
      /\ r.documents = ix.documents /\ r.documents_ids = ix.documents_ids
      /\ r.soft_deleted = ix.soft_deleted /\ r.hard = ix.hard /\ r.soft = ix.soft
      /\ r.distribution = ix.distribution /\ r.db = ix.db /\ r.words_fst = ix.words_fst
      /\ r.prefixes_fst = ix.prefixes_fst /\ r.prefix_db = ix.prefix_db
  BY <1>1 DEF IsIndex
<1> HIDE DEF r
<1>3. ToFst(r) = ToFst(ix)
  BY <1>2 DEF ToFst
<1>4. /\ Distinct(names) /\ \A d \in DOMAIN ix.documents : Encoded(ix.documents[d], names)
      /\ ix.documents_ids \subseteq DOMAIN ix.documents /\ ix.documents_ids \subseteq 0 .. MaxDocId
  BY <1>1 DEF Stores
<1>5. \A d \in DOMAIN ix.documents : Encoded(ix.documents[d], longer)
  BY <1>4, DecodeExtended
<1>6. Stores(r)
  BY <1>1, <1>2, <1>5 DEF Stores
<1>7. \A id, d : Leads(r, id, d) <=> Leads(ix, id, d)
  BY <1>2, <1>3 DEF Leads
<1>8. Identifies(r)
  BY <1>1, <1>2, <1>3, <1>7 DEF Identifies
<1>9. Files(r)
  BY <1>1, <1>2, <1>4, PostingsExtended DEF Files
<1>10. Clean(r)
  BY <1>1, <1>2 DEF Clean
<1>11. Counts(r.distribution, r.documents, r.documents_ids, r.fields_ids_map)
  <2>1. ASSUME NEW d \in ix.documents_ids, NEW f
        PROVE  HasField(ix.documents, names, f, d) <=> HasField(ix.documents, longer, f, d)
    <3>1. Encoded(ix.documents[d], names) /\ Len(names) \in Nat
      BY <1>4 DEF Distinct
    <3>2. \A fid \in DOMAIN ix.documents[d] : longer[fid] = names[fid]
      BY <3>1 DEF Encoded, Extends
    <3> QED
      BY <3>2 DEF HasField
  <2>2. \A f : CountedIn(ix.documents, ix.documents_ids, names, f)
                 = CountedIn(ix.documents, ix.documents_ids, longer, f)
    BY <2>1, CountSame
  <2>3. \A f : /\ f \in DOMAIN ix.distribution
                    <=> CountedIn(ix.documents, ix.documents_ids, names, f) > 0
               /\ f \in DOMAIN ix.distribution =>
                    ix.distribution[f] = CountedIn(ix.documents, ix.documents_ids, names, f)
               /\ IsFunction(ix.distribution)
    BY <1>1, <1>4, CountOf
  <2>4. \A d \in ix.documents_ids : Encoded(ix.documents[d], longer)
    BY <1>4, <1>5
  <2>5. Counts(ix.distribution, ix.documents, ix.documents_ids, longer)
    <3> DEFINE count == ix.distribution
               docids == ix.documents_ids
               documents == ix.documents
    <3>1. IsFunction(count) /\ docids \in SUBSET (0 .. MaxDocId)
      BY <1>4, <2>3
    <3>2. \A f \in DOMAIN count : count[f] = CountedIn(documents, docids, longer, f)
      BY <2>2, <2>3
    <3>3. \A f : CountedIn(documents, docids, longer, f) > 0 <=> f \in DOMAIN count
      BY <2>2, <2>3
    <3>4. \A d \in docids : Encoded(documents[d], longer)
      BY <2>4
    <3> HIDE DEF count, docids, documents
    <3>5. Counts(count, documents, docids, longer)
      BY <3>1, <3>2, <3>3, <3>4, CountsDirect
    <3> QED
      BY <3>5 DEF count, docids, documents
  <2> QED
    BY <1>2, <2>5
<1>12. Prefixed(r)
  <2>1. Exact(ix.settings, names) => Exact(ix.settings, longer)
    BY <1>4, ExactExtended
  <2> QED
    BY <1>1, <1>2, <2>1 DEF Prefixed
<1> QED
  BY <1>1, <1>2, <1>6, <1>7, <1>8, <1>9, <1>10, <1>11, <1>12 DEF Good, r

\* The prefix databases are all that execute_prefix_databases changes.
LEMMA PrefixFields ==
  ASSUME NEW ix, IsIndex(ix), NEW chunk
  PROVE  LET r == PrefixDatabases(ix, chunk) IN
         /\ IsIndex(r)
         /\ r.fields_ids_map = ix.fields_ids_map /\ r.settings = ix.settings
         /\ r.documents = ix.documents /\ r.documents_ids = ix.documents_ids
         /\ r.soft_deleted = ix.soft_deleted /\ r.hard = ix.hard /\ r.soft = ix.soft
         /\ r.distribution = ix.distribution /\ r.db = ix.db /\ r.words_fst = ix.words_fst
<1> DEFINE prefixes == WordsPrefixesFst(ix.words_fst)
           prefix_db == PrefixDatabases(ix, chunk).prefix_db
<1>1. PrefixDatabases(ix, chunk)
        = [ix EXCEPT !.prefixes_fst = prefixes, !.prefix_db = prefix_db]
  BY DEF PrefixDatabases, IsIndex
<1> HIDE DEF prefixes, prefix_db
<1> QED
  BY <1>1 DEF IsIndex

\* execute_prefix_databases builds the FST again and renews the prefix databases.
LEMMA PrefixDatabasesRenew ==
  ASSUME NEW ix, IsIndex(ix), NEW chunk
  PROVE  LET r == PrefixDatabases(ix, chunk)
             current == WordsPrefixesFst(ix.words_fst)
         IN /\ r.prefixes_fst = current /\ DOMAIN r.prefix_db = PrefixKinds
            /\ Renews(r.prefix_db, ix.prefix_db, chunk, ix.db, ix.prefixes_fst, current)
<1> DEFINE current == WordsPrefixesFst(ix.words_fst)
           new == current \ ix.prefixes_fst
           common == current \cap ix.prefixes_fst
           del == ix.prefixes_fst \ current
           pairs == "word_pair_proximity_docids"
           filed == PrefixDatabases(ix, chunk).prefix_db
<1>1. PrefixDatabases(ix, chunk).prefixes_fst = current /\ DOMAIN filed = PrefixKinds
  BY DEF PrefixDatabases, IsIndex
<1>2. ASSUME NEW kind \in PrefixKinds
      PROVE  filed[kind] =
               IF kind \in WordKinds
               THEN WordPrefixDocids(ix.prefix_db[kind], Source(chunk, kind), Source(ix.db, kind),
                                     new, common, del)
               ELSE PairPrefixDocids(ix.prefix_db[kind], Source(chunk, kind), Source(ix.db, kind),
                                     new, common, del)
  <2>1. filed[kind] =
             CASE kind \in {"word_docids", "exact_word_docids"} ->
                    WordPrefixDocids(ix.prefix_db[kind], chunk[kind], ix.db[kind], new, common, del)
               [] kind \in {"word_position_docids", "word_fid_docids"} ->
                    WordPrefixIntegerDocids(ix.prefix_db[kind], chunk[kind], ix.db[kind], new, common, del)
               [] kind = "word_prefix_pair_proximity_docids" ->
                    index_word_prefix_database(ix.prefix_db[kind], chunk[pairs], ix.db[pairs], new, common, del)
               [] OTHER ->
                    index_prefix_word_database(ix.prefix_db[kind], chunk[pairs], ix.db[pairs], new, common, del)
    BY <1>2 DEF PrefixDatabases, IsIndex
  <2> HIDE DEF new, common, del, filed
  <2>2. CASE kind \in WordKinds
    <3>1. filed[kind] = WordPrefixDocids(ix.prefix_db[kind], chunk[kind], ix.db[kind], new, common, del)
      <4>1. CASE kind \in {"word_docids", "exact_word_docids"}
        BY <2>1, <4>1
      <4>2. CASE kind \in {"word_position_docids", "word_fid_docids"}
        <5>1. filed[kind] = WordPrefixIntegerDocids(ix.prefix_db[kind], chunk[kind], ix.db[kind],
                                                    new, common, del)
          BY <2>1, <4>2
        <5> QED
          BY <5>1, Zenon DEF WordPrefixIntegerDocids
      <4> QED
        BY <2>2, <4>1, <4>2 DEF WordKinds
    <3>2. Source(chunk, kind) = chunk[kind] /\ Source(ix.db, kind) = ix.db[kind]
      BY <2>2 DEF Source, WordKinds
    <3> QED
      BY <2>2, <3>1, <3>2
  <2>3. CASE kind = "word_prefix_pair_proximity_docids"
    <3>1. filed[kind] = index_word_prefix_database(ix.prefix_db[kind], chunk[pairs], ix.db[pairs],
                                                   new, common, del)
      BY <2>1, <2>3
    <3>2. /\ Source(chunk, kind) = SecondAbbreviated(chunk[pairs])
          /\ Source(ix.db, kind) = SecondAbbreviated(ix.db[pairs]) /\ kind \notin WordKinds
      BY <2>3 DEF Source, WordKinds
    <3> QED
      BY <3>1, <3>2, Zenon DEF index_word_prefix_database
  <2>4. CASE kind = "prefix_word_pair_proximity_docids"
    <3>1. filed[kind] = index_prefix_word_database(ix.prefix_db[kind], chunk[pairs], ix.db[pairs],
                                                   new, common, del)
      BY <2>1, <2>4
    <3>2. /\ Source(chunk, kind) = FirstAbbreviated(chunk[pairs])
          /\ Source(ix.db, kind) = FirstAbbreviated(ix.db[pairs]) /\ kind \notin WordKinds
      BY <2>4 DEF Source, WordKinds
    <3> QED
      BY <3>1, <3>2, Zenon DEF index_prefix_word_database
  <2> QED
    BY <1>2, <2>2, <2>3, <2>4 DEF PrefixKinds
<1> QED
  BY <1>1, <1>2, Zenon DEF Renews

\* In an index without words they stay empty.
LEMMA PrefixEmpty ==
  ASSUME NEW ix, IsIndex(ix), NEW chunk, ix.words_fst = {}, ix.prefixes_fst = {},
         \A kind \in PostingKinds : ix.db[kind] = {} /\ chunk[kind] = {},
         \A kind \in PrefixKinds : ix.prefix_db[kind] = {}
  PROVE  LET r == PrefixDatabases(ix, chunk) IN
         r.prefixes_fst = {} /\ \A kind \in PrefixKinds : r.prefix_db[kind] = {}
<1> DEFINE r == PrefixDatabases(ix, chunk)
           current == WordsPrefixesFst(ix.words_fst)
<1>1. /\ r.prefixes_fst = current
      /\ Renews(r.prefix_db, ix.prefix_db, chunk, ix.db, ix.prefixes_fst, current)
  BY PrefixDatabasesRenew
<1> HIDE DEF r
<1>2. current = {}
  BY DEF WordsPrefixesFst
<1> HIDE DEF current
<1>3. \A new, common, del : /\ WordPrefixDocids({}, {}, {}, new, common, del) = {}
                            /\ PairPrefixDocids({}, {}, {}, new, common, del) = {}
  BY DEF WordPrefixDocids, PairPrefixDocids, WithoutPrefixes, AtPrefixes
<1>4. \A kind \in PrefixKinds : Source(chunk, kind) = {} /\ Source(ix.db, kind) = {}
  <2>1. SecondAbbreviated({}) = {} /\ FirstAbbreviated({}) = {}
    BY DEF SecondAbbreviated, FirstAbbreviated
  <2> QED
    BY <2>1 DEF Source, PrefixKinds, PostingKinds
<1>5. ASSUME NEW kind \in PrefixKinds PROVE r.prefix_db[kind] = {}
  <2>1. ix.prefix_db[kind] = {} /\ Source(chunk, kind) = {} /\ Source(ix.db, kind) = {}
    BY <1>4, <1>5
  <2> DEFINE new == current \ ix.prefixes_fst
             common == current \cap ix.prefixes_fst
             del == ix.prefixes_fst \ current
  <2>2. r.prefix_db[kind] = IF kind \in WordKinds
                            THEN WordPrefixDocids({}, {}, {}, new, common, del)
                            ELSE PairPrefixDocids({}, {}, {}, new, common, del)
    BY <1>1, <1>5, <2>1, Zenon DEF Renews
  <2> HIDE DEF new, common, del
  <2> QED
    BY <1>3, <2>2
<1> QED
  BY <1>1, <1>2, <1>5 DEF r

\* What write_typed_chunk_into_index and the end of execute_raw change.
Written(r, ix, output, chunk) ==
  /\ IsIndex(r)
  /\ r.fields_ids_map = ix.fields_ids_map /\ r.settings = ix.settings
  /\ r.documents = Over(output.documents, ix.documents)
  /\ r.documents_ids = ix.documents_ids \cup output.new_ids
  /\ r.soft_deleted = ix.soft_deleted
  /\ r.distribution = output.distribution
  /\ r.db = [kind \in PostingKinds |-> write_entries_into_database(ix.db[kind], chunk[kind])]
  /\ r.words_fst = ix.words_fst \cup WordsOf(chunk["word_docids"])
                     \cup WordsOf(chunk["exact_word_docids"])
  /\ r.prefixes_fst = ix.prefixes_fst /\ r.prefix_db = ix.prefix_db
  /\ \/ r.soft = Over(output.external_ids, ix.soft) /\ r.hard = ix.hard
     \/ r.soft = <<>> /\ r.hard = Over(Over(output.external_ids, ix.soft), ix.hard)

\* They change no more than that.
LEMMA WrittenFields ==
  ASSUME NEW ix, IsIndex(ix), NEW output, NEW chunk
  PROVE  Written(PutIdentifiers(write_typed_chunk_into_index(ix, output.documents, chunk), output),
                 ix, output, chunk)
<1> DEFINE w == write_typed_chunk_into_index(ix, output.documents, chunk)
           i == insert_ids(w, output.external_ids)
           db == [kind \in PostingKinds |-> write_entries_into_database(ix.db[kind], chunk[kind])]
           words == ix.words_fst \cup WordsOf(chunk["word_docids"])
                            \cup WordsOf(chunk["exact_word_docids"])
           documents == Over(output.documents, ix.documents)
<1>1. w = [ix EXCEPT !.documents = documents, !.db = db, !.words_fst = words]
  BY DEF write_typed_chunk_into_index, IsIndex
<1> HIDE DEF w, db, words, documents
<1>2. /\ IsIndex(w)
      /\ w.fields_ids_map = ix.fields_ids_map /\ w.settings = ix.settings
      /\ w.documents = documents /\ w.documents_ids = ix.documents_ids
      /\ w.soft_deleted = ix.soft_deleted /\ w.soft = ix.soft /\ w.hard = ix.hard
      /\ w.db = db /\ w.words_fst = words
      /\ w.prefixes_fst = ix.prefixes_fst /\ w.prefix_db = ix.prefix_db
  BY <1>1 DEF IsIndex
<1> DEFINE soft == Over(output.external_ids, ix.soft)
           hard == Over(soft, ix.hard)
<1>3. i = [w EXCEPT !.hard = hard, !.soft = <<>>] \/ i = [w EXCEPT !.soft = soft]
  BY <1>2 DEF insert_ids
<1> HIDE DEF soft, hard, i
<1>4. /\ IsIndex(i)
      /\ i.fields_ids_map = ix.fields_ids_map /\ i.settings = ix.settings
      /\ i.documents = documents /\ i.documents_ids = ix.documents_ids
      /\ i.soft_deleted = ix.soft_deleted
      /\ i.db = db /\ i.words_fst = words
      /\ i.prefixes_fst = ix.prefixes_fst /\ i.prefix_db = ix.prefix_db
      /\ \/ i.soft = soft /\ i.hard = ix.hard
         \/ i.soft = <<>> /\ i.hard = hard
  BY <1>2, <1>3 DEF IsIndex
<1> DEFINE p == PutIdentifiers(w, output)
<1>5. p = [i EXCEPT !.distribution = output.distribution, !.documents_ids = @ \cup output.new_ids]
  BY DEF PutIdentifiers, i
<1> HIDE DEF p
<1>6. /\ IsIndex(p)
      /\ p.fields_ids_map = ix.fields_ids_map /\ p.settings = ix.settings
      /\ p.documents = documents /\ p.documents_ids = ix.documents_ids \cup output.new_ids
      /\ p.soft_deleted = ix.soft_deleted /\ p.distribution = output.distribution
      /\ p.db = db /\ p.words_fst = words
      /\ p.prefixes_fst = ix.prefixes_fst /\ p.prefix_db = ix.prefix_db
      /\ \/ p.soft = soft /\ p.hard = ix.hard
         \/ p.soft = <<>> /\ p.hard = hard
  BY <1>4, <1>5 DEF IsIndex
<1> QED
  BY <1>6, Zenon DEF p, w, soft, hard, documents, db, words, Written

\* The identifiers of a batch hide the ones that were there, wherever insert_ids puts them.
LEMMA WrittenIds ==
  ASSUME NEW r, NEW ix, IsFunction(ix.hard), IsFunction(ix.soft), NEW ids, IsFunction(ids),
         \/ r.soft = Over(ids, ix.soft) /\ r.hard = ix.hard
         \/ r.soft = <<>> /\ r.hard = Over(Over(ids, ix.soft), ix.hard)
  PROVE  IsFunction(r.soft) /\ IsFunction(r.hard) /\ ToFst(r) = Over(ids, ToFst(ix))
<1>1. Over(Over(ids, ix.soft), ix.hard) = Over(ids, Over(ix.soft, ix.hard))
  <2> DEFINE new == Over(ids, ix.soft)
             old == Over(ix.soft, ix.hard)
             a == Over(new, ix.hard)
             b == Over(ids, old)
  <2>1. /\ DOMAIN new = DOMAIN ids \cup DOMAIN ix.soft
        /\ \A x \in DOMAIN ids : new[x] = ids[x]
        /\ \A x \in DOMAIN ix.soft \ DOMAIN ids : new[x] = ix.soft[x]
    BY OverFacts
  <2>2. /\ DOMAIN old = DOMAIN ix.soft \cup DOMAIN ix.hard
        /\ \A x \in DOMAIN ix.soft : old[x] = ix.soft[x]
        /\ \A x \in DOMAIN ix.hard \ DOMAIN ix.soft : old[x] = ix.hard[x]
    BY OverFacts
  <2> HIDE DEF new, old
  <2>3. /\ IsFunction(a) /\ DOMAIN a = DOMAIN new \cup DOMAIN ix.hard
        /\ \A x \in DOMAIN new : a[x] = new[x]
        /\ \A x \in DOMAIN ix.hard \ DOMAIN new : a[x] = ix.hard[x]
    BY OverFacts
  <2>4. /\ IsFunction(b) /\ DOMAIN b = DOMAIN ids \cup DOMAIN old
        /\ \A x \in DOMAIN ids : b[x] = ids[x]
        /\ \A x \in DOMAIN old \ DOMAIN ids : b[x] = old[x]
    BY OverFacts
  <2> HIDE DEF a, b
  <2>5. DOMAIN a = DOMAIN b
    BY <2>1, <2>2, <2>3, <2>4
  <2>6. \A x \in DOMAIN a : a[x] = b[x]
    BY <2>1, <2>2, <2>3, <2>4
  <2>7. a = b
    BY <2>3, <2>4, <2>5, <2>6, SameFunction
  <2> QED
    BY <2>7 DEF a, b, new, old
<1>2. CASE r.soft = Over(ids, ix.soft) /\ r.hard = ix.hard
  <2>1. IsFunction(Over(ids, ix.soft))
    BY OverFacts
  <2> QED
    BY <1>1, <1>2, <2>1, Zenon DEF ToFst
<1>3. CASE r.soft = <<>> /\ r.hard = Over(Over(ids, ix.soft), ix.hard)
  <2>1. IsFunction(Over(Over(ids, ix.soft), ix.hard))
    BY OverFacts
  <2>2. IsFunction(r.hard) /\ IsFunction(r.soft) /\ DOMAIN r.soft = {}
    BY <1>3, <2>1, NothingFacts
  <2>3. Over(r.soft, r.hard) = r.hard
    BY <2>2, OverNothing
  <2> QED
    BY <1>1, <1>3, <2>2, <2>3, Zenon DEF ToFst
<1> QED
  BY <1>2, <1>3

\* A batch that can be written into ix: new ids, each under one identifier that leads nowhere yet.
Writes(ix, output) ==
  /\ IsFunction(output.documents)
  /\ \A d \in DOMAIN output.documents : Encoded(output.documents[d], ix.fields_ids_map)
  /\ DOMAIN output.documents \subseteq 0 .. MaxDocId
  /\ DOMAIN output.documents \cap DOMAIN ix.documents = {}
  /\ output.new_ids = DOMAIN output.documents
  /\ IsFunction(output.external_ids) /\ DOMAIN output.external_ids \subseteq ExternalIds
  /\ \A id \in DOMAIN output.external_ids : output.external_ids[id] \in output.new_ids
  /\ \A d \in output.new_ids : \E id \in DOMAIN output.external_ids : output.external_ids[id] = d
  /\ \A x, y \in DOMAIN output.external_ids :
        output.external_ids[x] = output.external_ids[y] => x = y
  /\ \A id \in DOMAIN output.external_ids : \A d : ~Leads(ix, id, d)

\* What the batch adds to the documents.
Adds(r, ix, output) ==
  /\ r.fields_ids_map = ix.fields_ids_map /\ r.settings = ix.settings
  /\ r.documents = Over(output.documents, ix.documents)
  /\ r.documents_ids = ix.documents_ids \cup output.new_ids
  /\ \A id, d : Leads(r, id, d) <=>
        \/ id \in DOMAIN output.external_ids /\ output.external_ids[id] = d
        \/ Leads(ix, id, d)

\* The words of two relations that are merged.
LEMMA WordsUnion ==
  ASSUME NEW a, NEW b
  PROVE  WordsOf(write_entries_into_database(a, b)) = WordsOf(a) \cup WordsOf(b)
  BY DEF WordsOf, write_entries_into_database

\* A batch is written.
LEMMA WrittenGood ==
  ASSUME NEW ix, Good(ix), NEW output, Writes(ix, output),
         Counts(output.distribution, Over(output.documents, ix.documents),
                ix.documents_ids \cup output.new_ids, ix.fields_ids_map)
  PROVE  LET chunk == Postings(output.documents, ix.settings, ix.fields_ids_map)
             r == PrefixDatabases(
                    PutIdentifiers(write_typed_chunk_into_index(ix, output.documents, chunk), output),
                    chunk)
         IN Good(r) /\ Adds(r, ix, output)
<1> DEFINE names == ix.fields_ids_map
           chunk == Postings(output.documents, ix.settings, names)
           p == PutIdentifiers(write_typed_chunk_into_index(ix, output.documents, chunk), output)
           r == PrefixDatabases(p, chunk)
           ids == output.external_ids
           documents == Over(output.documents, ix.documents)
<1>1. /\ IsIndex(ix) /\ IsSettings(ix.settings)
      /\ Stores(ix) /\ Identifies(ix) /\ Files(ix) /\ Clean(ix) /\ Prefixed(ix)
  BY DEF Good
<1> HIDE DEF chunk
<1>2. Written(p, ix, output, chunk)
  BY <1>1, WrittenFields
<1> HIDE DEF p
<1>3. /\ IsIndex(p)
      /\ p.fields_ids_map = names /\ p.settings = ix.settings
      /\ p.documents = documents
      /\ p.documents_ids = ix.documents_ids \cup output.new_ids
      /\ p.soft_deleted = ix.soft_deleted
      /\ p.distribution = output.distribution
      /\ p.db = [kind \in PostingKinds |-> write_entries_into_database(ix.db[kind], chunk[kind])]
      /\ p.words_fst = ix.words_fst \cup WordsOf(chunk["word_docids"])
                         \cup WordsOf(chunk["exact_word_docids"])
      /\ p.prefixes_fst = ix.prefixes_fst /\ p.prefix_db = ix.prefix_db
  BY <1>2, Zenon DEF Written
<1>4. IsFunction(p.soft) /\ IsFunction(p.hard) /\ ToFst(p) = Over(ids, ToFst(ix))
  <2>1. IsFunction(ix.hard) /\ IsFunction(ix.soft) /\ IsFunction(ids)
    BY <1>1 DEF Writes, Identifies
  <2>2. \/ p.soft = Over(ids, ix.soft) /\ p.hard = ix.hard
        \/ p.soft = <<>> /\ p.hard = Over(Over(ids, ix.soft), ix.hard)
    BY <1>2, Zenon DEF Written
  <2> HIDE DEF ids
  <2> QED
    BY <2>1, <2>2, WrittenIds
<1>5. /\ IsIndex(r)
      /\ r.fields_ids_map = p.fields_ids_map /\ r.settings = p.settings
      /\ r.documents = p.documents /\ r.documents_ids = p.documents_ids
      /\ r.soft_deleted = p.soft_deleted /\ r.hard = p.hard /\ r.soft = p.soft
      /\ r.distribution = p.distribution /\ r.db = p.db /\ r.words_fst = p.words_fst
  BY <1>3, PrefixFields
<1>5a. /\ r.prefixes_fst = WordsPrefixesFst(p.words_fst) /\ DOMAIN r.prefix_db = PrefixKinds
       /\ Renews(r.prefix_db, p.prefix_db, chunk, p.db, p.prefixes_fst, WordsPrefixesFst(p.words_fst))
  BY <1>3, PrefixDatabasesRenew
<1> HIDE DEF r
<1>6. /\ DOMAIN documents = DOMAIN output.documents \cup DOMAIN ix.documents
      /\ IsFunction(documents)
      /\ \A d \in DOMAIN output.documents : documents[d] = output.documents[d]
      /\ \A d \in DOMAIN ix.documents : documents[d] = ix.documents[d]
  <2>1. /\ DOMAIN documents = DOMAIN output.documents \cup DOMAIN ix.documents
        /\ IsFunction(documents)
        /\ \A d \in DOMAIN output.documents : documents[d] = output.documents[d]
        /\ \A d \in DOMAIN ix.documents \ DOMAIN output.documents : documents[d] = ix.documents[d]
    BY OverFacts
  <2>2. \A d \in DOMAIN ix.documents : d \notin DOMAIN output.documents
    BY DEF Writes
  <2> HIDE DEF documents
  <2> QED
    BY <2>1, <2>2
<1> HIDE DEF documents
<1>7. Stores(r)
  BY <1>1, <1>3, <1>5, <1>6 DEF Stores, Writes
<1>8. ToFst(r) = Over(ids, ToFst(ix))
  BY <1>4, <1>5 DEF ToFst
<1> DEFINE old == ToFst(ix)
           new == ToFst(r)
<1>9. /\ DOMAIN new = DOMAIN ids \cup DOMAIN old
      /\ \A id \in DOMAIN ids : new[id] = ids[id]
      /\ \A id \in DOMAIN old \ DOMAIN ids : new[id] = old[id]
  <2> DEFINE over == Over(ids, old)
  <2>1. /\ DOMAIN over = DOMAIN ids \cup DOMAIN old
        /\ \A id \in DOMAIN ids : over[id] = ids[id]
        /\ \A id \in DOMAIN old \ DOMAIN ids : over[id] = old[id]
    BY OverFacts
  <2> QED
    BY <1>8, <2>1, Zenon
<1>10. ASSUME NEW id, NEW d
       PROVE  Leads(r, id, d) <=> (id \in DOMAIN ids /\ ids[id] = d) \/ Leads(ix, id, d)
  <2>1. Leads(r, id, d) <=>
          id \in DOMAIN new /\ new[id] = d /\ d \in ix.documents_ids \cup output.new_ids
    BY <1>3, <1>5 DEF Leads
  <2>2. Leads(ix, id, d) <=> id \in DOMAIN old /\ old[id] = d /\ d \in ix.documents_ids
    BY DEF Leads
  <2>3. \A x \in DOMAIN old : old[x] \in DOMAIN ix.documents
    BY <1>1 DEF Identifies
  <2>4. \A x \in DOMAIN ix.documents : x \notin output.new_ids
    BY DEF Writes
  <2>5. \A x \in DOMAIN ids : ids[x] \in output.new_ids /\ \A e : ~Leads(ix, x, e)
    BY DEF Writes
  <2> HIDE DEF new, old, ids
  <2> QED
    BY <1>9, <2>1, <2>2, <2>3, <2>4, <2>5
<1>11. Identifies(r)
  <2>1. DOMAIN new \subseteq ExternalIds
    BY <1>1, <1>9 DEF Identifies, Writes
  <2>2. \A id \in DOMAIN new : new[id] \in DOMAIN r.documents
    <3>1. \A id \in DOMAIN old : old[id] \in DOMAIN ix.documents
      BY <1>1 DEF Identifies
    <3>2. \A id \in DOMAIN ids : ids[id] \in DOMAIN output.documents
      BY DEF Writes
    <3> HIDE DEF new, old, ids
    <3> QED
      BY <1>3, <1>5, <1>6, <1>9, <3>1, <3>2
  <2>3. \A d \in r.documents_ids : \E id : Leads(r, id, d)
    BY <1>1, <1>3, <1>5, <1>10 DEF Identifies, Writes
  <2>4. ASSUME NEW x, NEW y, NEW d, Leads(r, x, d), Leads(r, y, d)
        PROVE  x = y
    <3>1. d \in ix.documents_ids => d \notin output.new_ids
      BY <1>1 DEF Writes, Stores
    <3>2. \A z : Leads(ix, z, d) => d \in ix.documents_ids
      BY DEF Leads
    <3>3. Leads(ix, x, d) /\ Leads(ix, y, d) => x = y
      BY <1>1 DEF Identifies
    <3>4. /\ \A id \in DOMAIN ids : ids[id] \in output.new_ids
          /\ x \in DOMAIN ids /\ y \in DOMAIN ids /\ ids[x] = ids[y] => x = y
      BY DEF Writes
    <3> HIDE DEF ids
    <3> QED
      BY <1>10, <2>4, <3>1, <3>2, <3>3, <3>4
  <2> QED
    BY <1>4, <1>5, <2>1, <2>2, <2>3, <2>4 DEF Identifies
<1>12. ix.db = Postings(ix.documents, ix.settings, names)
  BY <1>1 DEF Files
<1>13. {"word_docids", "exact_word_docids"} \subseteq PostingKinds
  BY DEF PostingKinds, WordKinds
<1>14. Files(r)
  <2>1. r.db = Postings(documents, ix.settings, names)
    BY <1>3, <1>5, <1>12, PostingsOver DEF Writes, documents, chunk
  <2>2. r.db["word_docids"]
          = write_entries_into_database(ix.db["word_docids"], chunk["word_docids"])
    BY <1>3, <1>5, <1>13
  <2>3. r.db["exact_word_docids"]
          = write_entries_into_database(ix.db["exact_word_docids"], chunk["exact_word_docids"])
    BY <1>3, <1>5, <1>13
  <2>4. ix.words_fst = WordsOf(ix.db["word_docids"]) \cup WordsOf(ix.db["exact_word_docids"])
    BY <1>1 DEF Files
  <2>5. r.words_fst = WordsOf(r.db["word_docids"]) \cup WordsOf(r.db["exact_word_docids"])
    BY <1>3, <1>5, <2>2, <2>3, <2>4, WordsUnion
  <2> QED
    BY <1>3, <1>5, <2>1, <2>5 DEF Files
<1>15. Clean(r)
  <2> SUFFICES ASSUME r.documents_ids = {}
               PROVE  /\ r.soft_deleted = {}
                      /\ \A kind \in PostingKinds : r.db[kind] = {}
                      /\ r.words_fst = {} /\ r.prefixes_fst = {}
                      /\ \A kind \in PrefixKinds : r.prefix_db[kind] = {}
    BY DEF Clean
  <2>1. ix.documents_ids = {} /\ output.new_ids = {} /\ DOMAIN output.documents = {}
    BY <1>3, <1>5 DEF Writes
  <2>2. /\ ix.soft_deleted = {}
        /\ \A kind \in PostingKinds : ix.db[kind] = {}
        /\ ix.words_fst = {} /\ ix.prefixes_fst = {}
        /\ \A kind \in PrefixKinds : ix.prefix_db[kind] = {}
    BY <1>1, <2>1 DEF Clean
  <2>3. \A kind \in PostingKinds : chunk[kind] = {}
    <3>1. chunk = EmptyRelations(PostingKinds)
      BY <2>1, PostingsNothing DEF chunk
    <3> QED
      BY <3>1 DEF EmptyRelations
  <2>4. \A kind \in PostingKinds : p.db[kind] = {}
    BY <1>3, <2>2, <2>3 DEF write_entries_into_database
  <2>5. p.words_fst = {}
    BY <1>3, <1>13, <2>2, <2>3 DEF WordsOf
  <2>6. r.prefixes_fst = {} /\ \A kind \in PrefixKinds : r.prefix_db[kind] = {}
    BY <1>3, <2>2, <2>3, <2>4, <2>5, PrefixEmpty DEF r
  <2> QED
    BY <1>3, <1>5, <2>2, <2>4, <2>5, <2>6
<1>16. Counts(r.distribution, r.documents, r.documents_ids, r.fields_ids_map)
  BY <1>3, <1>5, Zenon DEF documents
<1>16a. Prefixed(r)
  <2> DEFINE current == WordsPrefixesFst(r.words_fst)
  <2>1. /\ r.prefixes_fst = current
        /\ Renews(r.prefix_db, ix.prefix_db, chunk, r.db, ix.prefixes_fst, current)
    BY <1>3, <1>5, <1>5a
  <2>2. \A kind \in PostingKinds : r.db[kind] = write_entries_into_database(ix.db[kind], chunk[kind])
    BY <1>3, <1>5
  <2>3. Worded(r.db, ix.settings, names)
    <3>1. /\ Distinct(names) /\ DOMAIN r.documents \subseteq 0 .. MaxDocId
          /\ \A d \in DOMAIN r.documents : Encoded(r.documents[d], names)
          /\ r.db = Postings(r.documents, ix.settings, names)
      BY <1>3, <1>5, <1>7, <1>14 DEF Stores, Files
    <3> QED
      BY <3>1, PostingsWorded
  <2>4. \A kind \in WordKinds : \A x \in chunk[kind] : IsWord(x[1][1])
    BY <2>2, <2>3 DEF Worded, PostingKinds, write_entries_into_database
  <2>5. IsFiniteSet(r.words_fst) /\ \A w \in r.words_fst : IsWord(w)
    BY <1>14, <2>3 DEF Worded, Files, WordsOf, WordKinds
  <2>6. ~Exact(ix.settings, names) => r.db["exact_word_docids"] = {}
    BY <2>3 DEF Worded
  <2>7. /\ Sound(ix.db, ix.prefix_db)
        /\ ~Exact(ix.settings, names) =>
             /\ Full(ix.db, ix.prefix_db, ix.prefixes_fst)
             /\ Known(ix.prefix_db, ix.prefixes_fst)
             /\ Closed(ix.words_fst, ix.prefixes_fst)
    BY <1>1 DEF Prefixed
  <2>8. /\ Sound(r.db, r.prefix_db)
        /\ /\ Full(ix.db, ix.prefix_db, ix.prefixes_fst) /\ Known(ix.prefix_db, ix.prefixes_fst)
           /\ Closed(ix.words_fst, ix.prefixes_fst) /\ r.db["exact_word_docids"] = {}
           => /\ Full(r.db, r.prefix_db, current) /\ Known(r.prefix_db, current)
              /\ Closed(r.words_fst, current)
    <3> DEFINE db == r.db
               before == ix.db
               had == ix.prefix_db
               previous == ix.prefixes_fst
               words == ix.words_fst
               after == r.words_fst
               filed == r.prefix_db
    <3>1. \A kind \in PostingKinds : db[kind] = write_entries_into_database(before[kind], chunk[kind])
      BY <2>2
    <3>2. /\ IsFiniteSet(after) /\ (\A w \in after : IsWord(w)) /\ Sound(before, had)
          /\ Renews(filed, had, chunk, db, previous, WordsPrefixesFst(after))
      BY <2>1, <2>5, <2>7
    <3> HIDE DEF db, before, had, previous, words, after, filed
    <3>3. /\ Sound(db, filed)
          /\ /\ Full(before, had, previous) /\ Known(had, previous) /\ Closed(words, previous)
             /\ db["exact_word_docids"] = {}
             => /\ Full(db, filed, WordsPrefixesFst(after)) /\ Known(filed, WordsPrefixesFst(after))
                /\ Closed(after, WordsPrefixesFst(after))
      BY <2>4, <3>1, <3>2, RenewedPrefixes
    <3> QED
      BY <3>3, Zenon DEF db, before, had, previous, words, after, filed
  <2> HIDE DEF current
  <2> QED
    BY <1>3, <1>5, <1>5a, <2>1, <2>6, <2>7, <2>8 DEF Prefixed
<1>17. Good(r)
  BY <1>1, <1>3, <1>5, <1>7, <1>11, <1>14, <1>15, <1>16, <1>16a DEF Good
<1>18. Adds(r, ix, output)
  BY <1>3, <1>5, <1>10 DEF Adds, documents
<1> QED
  BY <1>17, <1>18, Zenon DEF r, p, chunk

\* The output of a Transform that can be written into ix, once the replaced documents are gone.
Batch(ix, output) ==
  /\ output.replaced \subseteq ix.documents_ids
  /\ IsFunction(output.documents)
  /\ \A d \in DOMAIN output.documents : Encoded(output.documents[d], ix.fields_ids_map)
  /\ DOMAIN output.documents \subseteq 0 .. MaxDocId
  /\ DOMAIN output.documents \cap DOMAIN ix.documents = {}
  /\ output.new_ids = DOMAIN output.documents
  /\ IsFunction(output.external_ids) /\ DOMAIN output.external_ids \subseteq ExternalIds
  /\ \A id \in DOMAIN output.external_ids : output.external_ids[id] \in output.new_ids
  /\ \A d \in output.new_ids : \E id \in DOMAIN output.external_ids : output.external_ids[id] = d
  /\ \A x, y \in DOMAIN output.external_ids :
        output.external_ids[x] = output.external_ids[y] => x = y
  /\ \A id \in DOMAIN output.external_ids : \A d : Leads(ix, id, d) => d \in output.replaced
  /\ Counts(output.distribution, Over(output.documents, ix.documents),
            (ix.documents_ids \ output.replaced) \cup output.new_ids, ix.fields_ids_map)

\* What the batch makes of the documents.
Becomes(r, ix, output) ==
  /\ r.fields_ids_map = ix.fields_ids_map /\ r.settings = ix.settings
  /\ r.documents_ids = (ix.documents_ids \ output.replaced) \cup output.new_ids
  /\ \A d \in output.new_ids : r.documents[d] = output.documents[d]
  /\ \A d \in ix.documents_ids \ output.replaced : r.documents[d] = ix.documents[d]
  /\ \A id, d : Leads(r, id, d) <=>
        \/ id \in DOMAIN output.external_ids /\ output.external_ids[id] = d
        \/ Leads(ix, id, d) /\ d \notin output.replaced

\* A batch is written by execute_raw.
LEMMA RawGood ==
  ASSUME NEW ix, IsIndex(ix), NEW output, NEW small,
         NEW mapped, mapped = [ix EXCEPT !.fields_ids_map = output.fields_ids_map],
         Good(mapped), Batch(mapped, output)
  PROVE  Good(Raw(ix, output, small)) /\ Becomes(Raw(ix, output, small), mapped, output)
<1> DEFINE gone == output.replaced
           base == IF gone = {} THEN mapped ELSE Deleted(mapped, gone, small)
           names == mapped.fields_ids_map
           chunk == Postings(output.documents, mapped.settings, names)
           r == PrefixDatabases(
                  PutIdentifiers(write_typed_chunk_into_index(base, output.documents, chunk), output),
                  chunk)
<1>1. names = output.fields_ids_map /\ mapped.settings = ix.settings
  BY DEF IsIndex
<1>2. Raw(ix, output, small) = r
  BY <1>1, Zenon DEF Raw
<1>3. Good(base) /\ Leaves(base, mapped, gone)
  <2>1. gone \in SUBSET mapped.documents_ids
    BY DEF Batch
  <2>2. CASE gone = {}
    BY <2>2 DEF Leaves
  <2>3. CASE gone # {}
    BY <2>1, <2>3, DeletedGood
  <2> QED
    BY <2>2, <2>3
<1> HIDE DEF base
<1>4. /\ base.fields_ids_map = names /\ base.settings = mapped.settings
      /\ base.documents_ids = mapped.documents_ids \ gone
      /\ DOMAIN base.documents \subseteq DOMAIN mapped.documents
      /\ \A d \in base.documents_ids : base.documents[d] = mapped.documents[d]
      /\ \A id, d : Leads(base, id, d) <=> Leads(mapped, id, d) /\ d \notin gone
  BY <1>3 DEF Leaves
<1>5. Writes(base, output)
  BY <1>4 DEF Batch, Writes
<1>6. Stores(base) /\ Stores(mapped)
  BY <1>3 DEF Good
<1> DEFINE docids == base.documents_ids \cup output.new_ids
           documents == Over(output.documents, base.documents)
           others == Over(output.documents, mapped.documents)
<1>7. Counts(output.distribution, documents, docids, base.fields_ids_map)
  <2>1. Counts(output.distribution, others, docids, names)
    BY <1>4, Zenon DEF Batch
  <2>2. /\ \A d \in output.new_ids : d \in DOMAIN output.documents
        /\ \A d \in base.documents_ids : /\ d \in DOMAIN base.documents \ DOMAIN output.documents
                                         /\ d \in DOMAIN mapped.documents \ DOMAIN output.documents
    BY <1>4, <1>5, <1>6 DEF Writes, Stores
  <2>3. /\ \A d \in DOMAIN output.documents : documents[d] = output.documents[d]
        /\ \A d \in DOMAIN base.documents \ DOMAIN output.documents : documents[d] = base.documents[d]
    BY OverFacts
  <2>4. /\ \A d \in DOMAIN output.documents : others[d] = output.documents[d]
        /\ \A d \in DOMAIN mapped.documents \ DOMAIN output.documents : others[d] = mapped.documents[d]
    <3> DEFINE old == mapped.documents
    <3> HIDE DEF old
    <3>1. /\ \A d \in DOMAIN output.documents : Over(output.documents, old)[d] = output.documents[d]
          /\ \A d \in DOMAIN old \ DOMAIN output.documents : Over(output.documents, old)[d] = old[d]
      BY OverFacts
    <3> QED
      BY <3>1, Zenon DEF old
  <2> HIDE DEF documents, others
  <2>5. ASSUME NEW d \in docids
        PROVE  others[d] = documents[d]
    <3>1. CASE d \in output.new_ids
      BY <2>2, <2>3, <2>4, <3>1
    <3>2. CASE d \in base.documents_ids
      <4>1. documents[d] = base.documents[d]
        BY <2>2, <2>3, <3>2
      <4>2. others[d] = mapped.documents[d]
        BY <2>2, <2>4, <3>2
      <4>3. base.documents[d] = mapped.documents[d]
        BY <1>4, <3>2
      <4> QED
        BY <4>1, <4>2, <4>3
    <3> QED
      BY <2>5, <3>1, <3>2
  <2> HIDE DEF docids
  <2>6. Counts(output.distribution, documents, docids, names)
    BY <2>1, <2>5, CountsSame
  <2> QED
    BY <1>4, <2>6
<1>8. Good(r) /\ Adds(r, base, output)
  BY <1>3, <1>4, <1>5, <1>7, WrittenGood, Zenon
<1> HIDE DEF r
<1>9. Becomes(r, mapped, output)
  <2>1. /\ r.fields_ids_map = base.fields_ids_map /\ r.settings = base.settings
        /\ r.documents = documents /\ r.documents_ids = docids
        /\ \A id, d : Leads(r, id, d) <=>
              \/ id \in DOMAIN output.external_ids /\ output.external_ids[id] = d
              \/ Leads(base, id, d)
    BY <1>8 DEF Adds
  <2>2. /\ \A d \in DOMAIN output.documents : documents[d] = output.documents[d]
        /\ \A d \in DOMAIN base.documents \ DOMAIN output.documents : documents[d] = base.documents[d]
    BY OverFacts
  <2> HIDE DEF documents
  <2>3. \A d \in output.new_ids : r.documents[d] = output.documents[d]
    BY <1>5, <2>1, <2>2 DEF Writes
  <2>4. \A d \in base.documents_ids : d \in DOMAIN base.documents \ DOMAIN output.documents
    BY <1>5, <1>6 DEF Writes, Stores
  <2>5. \A d \in mapped.documents_ids \ gone : r.documents[d] = mapped.documents[d]
    BY <1>4, <2>1, <2>2, <2>4
  <2> QED
    BY <1>4, <2>1, <2>3, <2>5 DEF Becomes
<1> QED
  BY <1>2, <1>8, <1>9

-----------------------------------------------------------------------------
(* What is left of the operations on one document.                           *)

IsSeq(operations) == (\E U : operations \in Seq(U)) /\ Len(operations) # 0

\* merge_obkvs_and_operations goes through the operations of a document.
LEMMA MergeRecursion ==
  ASSUME NEW operations, Len(operations) \in Nat
  PROVE  \E merged :
           /\ merge_obkvs_and_operations(operations)
                = IF Last(operations).deletion THEN Deletion ELSE Addition(merged[Len(operations)])
           /\ merged[0] = <<>>
           /\ \A n \in 1 .. Len(operations) :
                merged[n] = IF operations[n].deletion THEN <<>>
                            ELSE Over(operations[n].obkv, merged[n - 1])
<1> DEFINE Step(before, n) == IF n = 0 \/ operations[n].deletion THEN <<>>
                              ELSE Over(operations[n].obkv, before)
           last == Len(operations)
           Given == {n \in 0 .. last : \E g : g = [k \in 0 .. n |-> Step(g[k - 1], k)]}
           merged == CHOOSE g : g = [n \in 0 .. last |-> Step(g[n - 1], n)]
<1>1. merge_obkvs_and_operations(operations)
        = IF Last(operations).deletion THEN Deletion ELSE Addition(merged[last])
  BY Zenon DEF merge_obkvs_and_operations
<1>2. \A x : Step(x, 0) = <<>>
  OBVIOUS
<1>3. \A x : \A n \in 1 .. last :
        Step(x, n) = IF operations[n].deletion THEN <<>> ELSE Over(operations[n].obkv, x)
  OBVIOUS
<1> HIDE DEF Step
<1>4. last \in Given
  <2>1. 0 \in Given
    <3> DEFINE g == [k \in 0 .. 0 |-> <<>>]
    <3>1. g = [k \in 0 .. 0 |-> Step(g[k - 1], k)]
      BY <1>2
    <3> HIDE DEF g
    <3> QED
      BY <3>1
  <2>2. ASSUME NEW n \in 0 .. last - 1, n \in Given PROVE n + 1 \in Given
    <3>1. PICK g : g = [k \in 0 .. n |-> Step(g[k - 1], k)]
      BY <2>2
    <3> DEFINE h == [k \in 0 .. n + 1 |-> IF k = n + 1 THEN Step(g[n], n + 1) ELSE g[k]]
    <3>2. \A k \in 0 .. n + 1 : h[k] = Step(h[k - 1], k)
      <4> TAKE k \in 0 .. n + 1
      <4>1. CASE k = n + 1
        <5>1. h[k] = Step(g[n], n + 1) /\ h[n] = g[n] /\ k - 1 = n
          BY <4>1
        <5> QED
          BY <4>1, <5>1
      <4>2. CASE k \in 1 .. n
        <5>1. h[k] = g[k] /\ h[k - 1] = g[k - 1]
          BY <4>2
        <5>2. g[k] = Step(g[k - 1], k)
          BY <3>1, <4>2
        <5> QED
          BY <5>1, <5>2
      <4>3. CASE k = 0
        <5>1. h[0] = g[0]
          OBVIOUS
        <5>2. g[0] = Step(g[0 - 1], 0)
          BY <3>1
        <5> QED
          BY <1>2, <4>3, <5>1, <5>2
      <4> QED
        BY <4>1, <4>2, <4>3
    <3>3. h = [k \in 0 .. n + 1 |-> Step(h[k - 1], k)]
      BY <3>2
    <3>4. n + 1 \in 0 .. last
      OBVIOUS
    <3> HIDE DEF h
    <3> QED
      BY <3>3, <3>4
  <2> HIDE DEF Given
  <2>3. \A k \in 0 .. last : k \in Given
    BY <2>1, <2>2, UpTo
  <2> QED
    BY <2>3
<1>5. \E g : g = [n \in 0 .. last |-> Step(g[n - 1], n)]
  BY <1>4
<1>6. merged = [n \in 0 .. last |-> Step(merged[n - 1], n)]
  BY <1>5, Zenon
<1> HIDE DEF merged
<1>7. \A n \in 0 .. last : merged[n] = Step(merged[n - 1], n)
  BY <1>6, Zenon
<1>8. merged[0] = <<>>
  <2>1. 0 \in 0 .. last
    OBVIOUS
  <2> QED
    BY <1>2, <1>7, <2>1
<1>9. \A n \in 1 .. last : merged[n] = IF operations[n].deletion THEN <<>>
                                       ELSE Over(operations[n].obkv, merged[n - 1])
  <2> TAKE n \in 1 .. last
  <2>1. n \in 0 .. last
    OBVIOUS
  <2>2. merged[n] = Step(merged[n - 1], n)
    BY <1>7, <2>1
  <2> QED
    BY <1>3, <2>2
<1> QED
  BY <1>1, <1>8, <1>9

\* What one more operation makes of the others.
LEMMA MergeAppend ==
  ASSUME NEW operations, IsSeq(operations), NEW obkv, NEW method \in Methods
  PROVE  /\ Merge(method, Append(operations, Deletion)) = Deletion
         /\ method = "ReplaceDocuments" =>
              Merge(method, Append(operations, Addition(obkv))) = Addition(obkv)
         /\ method = "UpdateDocuments" /\ ~Merge(method, operations).deletion =>
              Merge(method, Append(operations, Addition(obkv)))
                = Addition(Over(obkv, Merge(method, operations).obkv))
<1> DEFINE last == Len(operations)
           with(o) == Append(operations, o)
<1>1. PICK U : operations \in Seq(U)
  BY DEF IsSeq
<1>2. last \in Nat /\ last # 0
  BY <1>1 DEF IsSeq
<1>3. \A o : /\ Len(with(o)) = last + 1 /\ with(o)[last + 1] = o /\ Last(with(o)) = o
             /\ \A n \in 1 .. last : with(o)[n] = operations[n]
  <2> TAKE o
  <2>1. operations \in Seq(U \cup {o}) /\ o \in U \cup {o}
    BY <1>1
  <2> QED
    BY <1>2, <2>1 DEF Last
<1> HIDE DEF with
<1>4. Deletion.deletion = TRUE /\ Addition(obkv).deletion = FALSE /\ Addition(obkv).obkv = obkv
  BY DEF Deletion, Addition
<1>5. Merge(method, with(Deletion)) = Deletion
  <2>1. merge_obkvs_and_operations(with(Deletion)) = Deletion
    <3>1. Len(with(Deletion)) \in Nat
      BY <1>2, <1>3
    <3>2. PICK m : merge_obkvs_and_operations(with(Deletion))
                = IF Last(with(Deletion)).deletion THEN Deletion
                  ELSE Addition(m[Len(with(Deletion))])
      BY <3>1, MergeRecursion
    <3> QED
      BY <1>3, <1>4, <3>2
  <2> QED
    BY <1>3, <2>1 DEF Merge, keep_latest_obkv
<1>6. method = "ReplaceDocuments" => Merge(method, with(Addition(obkv))) = Addition(obkv)
  BY <1>3 DEF Merge, keep_latest_obkv
<1>7. ASSUME method = "UpdateDocuments", ~Merge(method, operations).deletion
      PROVE  Merge(method, with(Addition(obkv))) = Addition(Over(obkv, Merge(method, operations).obkv))
  <2> DEFINE more == with(Addition(obkv))
  <2>1. Merge(method, operations) = merge_obkvs_and_operations(operations)
        /\ Merge(method, more) = merge_obkvs_and_operations(more)
    BY <1>7 DEF Merge
  <2>2. PICK m : /\ merge_obkvs_and_operations(operations)
                     = IF Last(operations).deletion THEN Deletion ELSE Addition(m[last])
                 /\ m[0] = <<>>
                 /\ \A n \in 1 .. last :
                      m[n] = IF operations[n].deletion THEN <<>> ELSE Over(operations[n].obkv, m[n - 1])
    BY <1>2, MergeRecursion
  <2>3. Merge(method, operations) = Addition(m[last])
    BY <1>4, <1>7, <2>1, <2>2
  <2>4. Merge(method, operations).obkv = m[last]
    BY <2>3 DEF Addition
  <2>5. Len(more) = last + 1 /\ Len(more) \in Nat
    BY <1>2, <1>3
  <2> HIDE DEF more
  <2>6. PICK w : /\ merge_obkvs_and_operations(more)
                     = IF Last(more).deletion THEN Deletion ELSE Addition(w[Len(more)])
                 /\ w[0] = <<>>
                 /\ \A n \in 1 .. Len(more) :
                      w[n] = IF more[n].deletion THEN <<>> ELSE Over(more[n].obkv, w[n - 1])
    BY <2>5, MergeRecursion
  <2> DEFINE Same == {n \in 0 .. last : w[n] = m[n]}
  <2>7. last \in Same
    <3>1. 0 \in Same
      BY <1>2, <2>2, <2>6
    <3>2. ASSUME NEW k \in 0 .. last - 1, k \in Same PROVE k + 1 \in Same
      <4>1. k + 1 \in 1 .. last /\ k + 1 \in 1 .. Len(more) /\ k + 1 - 1 = k
        BY <1>2, <2>5
      <4>2. more[k + 1] = operations[k + 1]
        BY <1>3, <4>1 DEF more
      <4>3. w[k] = m[k]
        BY <3>2
      <4>4. w[k + 1] = m[k + 1]
        BY <2>2, <2>6, <4>1, <4>2, <4>3
      <4> QED
        BY <4>1, <4>4
    <3> HIDE DEF Same
    <3>3. \A k \in 0 .. last : k \in Same
      BY <1>2, <3>1, <3>2, UpTo
    <3> QED
      BY <1>2, <3>3
  <2>8. more[last + 1] = Addition(obkv) /\ Last(more) = Addition(obkv)
    BY <1>3 DEF more
  <2>9. last + 1 \in 1 .. Len(more) /\ last + 1 - 1 = last
    BY <1>2, <2>5
  <2>10. w[last + 1] = IF more[last + 1].deletion THEN <<>>
                       ELSE Over(more[last + 1].obkv, w[last])
    BY <2>6, <2>9
  <2>11. w[last + 1] = Over(obkv, m[last])
    BY <1>4, <2>7, <2>8, <2>10
  <2> QED
    BY <1>4, <2>1, <2>4, <2>5, <2>6, <2>8, <2>11 DEF more
<1> QED
  BY <1>5, <1>6, <1>7 DEF with

\* One operation is left as it is.
LEMMA MergeSingle ==
  ASSUME NEW obkv, IsFunction(obkv), NEW method \in Methods
  PROVE  IsSeq(<<Addition(obkv)>>) /\ Merge(method, <<Addition(obkv)>>) = Addition(obkv)
<1> DEFINE operations == <<Addition(obkv)>>
<1>1. operations \in Seq({Addition(obkv)}) /\ Len(operations) = 1 /\ operations[1] = Addition(obkv)
  <2> DEFINE x == Addition(obkv)
  <2> HIDE DEF x
  <2>1. <<x>> \in Seq({x}) /\ Len(<<x>>) = 1 /\ <<x>>[1] = x
    OBVIOUS
  <2> QED
    BY <2>1, Zenon DEF x
<1>2. IsSeq(operations)
  <2>1. Len(operations) # 0
    BY <1>1
  <2>2. \E U : operations \in Seq(U)
    BY <1>1, Zenon
  <2> QED
    BY <2>1, <2>2 DEF IsSeq
<1>3. Last(operations) = Addition(obkv)
  BY <1>1 DEF Last
<1>4. Addition(obkv).deletion = FALSE /\ Addition(obkv).obkv = obkv
  BY DEF Addition
<1> HIDE DEF operations
<1>5. PICK m : /\ merge_obkvs_and_operations(operations)
                   = IF Last(operations).deletion THEN Deletion ELSE Addition(m[Len(operations)])
               /\ m[0] = <<>>
               /\ \A n \in 1 .. Len(operations) :
                    m[n] = IF operations[n].deletion THEN <<>> ELSE Over(operations[n].obkv, m[n - 1])
  BY <1>1, MergeRecursion
<1>6. m[1] = Over(obkv, m[0])
  BY <1>1, <1>4, <1>5
<1>7. m[1] = obkv
  <2>1. DOMAIN m[0] = {}
    BY <1>5, NothingFacts
  <2> QED
    BY <1>6, <2>1, OverNothing
<1> QED
  BY <1>1, <1>2, <1>3, <1>4, <1>5, <1>7 DEF Merge, keep_latest_obkv, operations

\* One operation more.
LEMMA AppendSeq ==
  ASSUME NEW operations, IsSeq(operations), NEW o
  PROVE  IsSeq(Append(operations, o))
<1>1. PICK U : operations \in Seq(U)
  BY DEF IsSeq
<1>2. operations \in Seq(U \cup {o}) /\ o \in U \cup {o}
  BY <1>1
<1>3. Append(operations, o) \in Seq(U \cup {o}) /\ Len(Append(operations, o)) # 0
  BY <1>2
<1> QED
  BY <1>3 DEF IsSeq

\* r is f with an entry more.
Puts(r, x, value, f) ==
  /\ IsFunction(r) /\ DOMAIN r = DOMAIN f \cup {x} /\ r[x] = value
  /\ \A y \in DOMAIN f \ {x} : r[y] = f[y]

\* An entry over a function.
LEMMA OverEntry ==
  ASSUME NEW x, NEW value, NEW f
  PROVE  Puts(Over(Entry(x, value), f), x, value, f)
<1> DEFINE entry == Entry(x, value)
           r == Over(entry, f)
<1>1. DOMAIN entry = {x} /\ entry[x] = value
  BY EntryFacts
<1> HIDE DEF entry
<1>2. /\ IsFunction(r) /\ DOMAIN r = DOMAIN entry \cup DOMAIN f
      /\ \A y \in DOMAIN entry : r[y] = entry[y]
      /\ \A y \in DOMAIN f \ DOMAIN entry : r[y] = f[y]
  BY OverFacts
<1> HIDE DEF r
<1>3. IsFunction(r) /\ DOMAIN r = DOMAIN f \cup {x} /\ r[x] = value
  BY <1>1, <1>2
<1>4. \A y \in DOMAIN f \ {x} : r[y] = f[y]
  BY <1>1, <1>2
<1> QED
  BY <1>3, <1>4 DEF r, entry, Puts

\* The operations on a document, with one more.
LEMMA PushFacts ==
  ASSUME NEW sorter, IsFunction(sorter), NEW d, NEW o
  PROVE  Puts(Push(sorter, d, o), d, IF d \in DOMAIN sorter THEN Append(sorter[d], o) ELSE <<o>>,
              sorter)
<1> DEFINE r == Push(sorter, d, o)
<1>1. CASE d \in DOMAIN sorter
  <2>1. r = [e \in DOMAIN sorter |-> IF e = d THEN Append(sorter[d], o) ELSE sorter[e]]
    BY <1>1 DEF Push, IsFunction
  <2> QED
    BY <1>1, <2>1 DEF IsFunction, Puts
<1>2. CASE d \notin DOMAIN sorter
  BY <1>2, OverEntry DEF Push
<1> QED
  BY <1>1, <1>2

-----------------------------------------------------------------------------
(* Transform, while it reads the operations of a batch.                      *)

IsTransform(t) ==
  DOMAIN t = {"names", "available", "replaced", "new_ids", "builder", "sorter", "added", "failed"}

\* What Transform keeps true: an identifier of the batch has an id of its own that the index does
\* not use, its document in the index is one to replace, and the operations on its id end with an
\* addition; those on any other id that was given end with a deletion.
Reads(ix, t, method) ==
  /\ Distinct(t.names) /\ Extends(t.names, ix.fields_ids_map)
  /\ t.available \subseteq AvailableIds(ix)
  /\ t.replaced \subseteq ix.documents_ids
  /\ IsFunction(t.sorter) /\ DOMAIN t.sorter \subseteq AvailableIds(ix) \ t.available
  /\ \A d \in DOMAIN t.sorter : IsSeq(t.sorter[d])
  /\ IsFunction(t.builder) /\ DOMAIN t.builder \subseteq ExternalIds
  /\ \A id \in DOMAIN t.builder : t.builder[id] \in t.new_ids
  /\ \A d \in t.new_ids : d \in DOMAIN t.sorter /\ \E id \in DOMAIN t.builder : t.builder[id] = d
  /\ \A x, y \in DOMAIN t.builder : t.builder[x] = t.builder[y] => x = y
  /\ \A id \in DOMAIN t.builder : \A d : Leads(ix, id, d) => d \in t.replaced
  /\ \A d \in DOMAIN t.sorter \ t.new_ids : Merge(method, t.sorter[d]) = Deletion
  /\ \A d \in t.new_ids : \E obkv : /\ Merge(method, t.sorter[d]) = Addition(obkv)
                                    /\ Encoded(obkv, t.names)

\* What the batch has made of the documents so far.
Holds(ix, t, method, documents) ==
  /\ IsFunction(documents)
  /\ \A id : id \in DOMAIN documents <=>
        id \in DOMAIN t.builder \/ \E d : Leads(ix, id, d) /\ d \notin t.replaced
  /\ \A id \in DOMAIN t.builder :
        documents[id] = Decode(t.names, Merge(method, t.sorter[t.builder[id]]).obkv)
  /\ \A id, d : Leads(ix, id, d) /\ d \notin t.replaced =>
        documents[id] = Decode(ix.fields_ids_map, ix.documents[d])

\* The step from t to u gives the identifier id, under the id docid, the document obkv.
Takes(u, t, ix, method, id, docid, obkv) ==
  /\ id \in ExternalIds /\ docid \in AvailableIds(ix) \ u.available
  /\ u.names = t.names /\ u.available \subseteq t.available
  /\ t.replaced \subseteq u.replaced
  /\ \A d \in u.replaced \ t.replaced : Leads(ix, id, d)
  /\ \A d : Leads(ix, id, d) => d \in u.replaced
  /\ u.builder = Over(Entry(id, docid), t.builder)
  /\ u.new_ids = t.new_ids \cup {docid}
  /\ \/ id \in DOMAIN t.builder /\ t.builder[id] = docid
     \/ id \notin DOMAIN t.builder /\ docid \notin DOMAIN t.sorter
  /\ IsFunction(u.sorter) /\ DOMAIN u.sorter = DOMAIN t.sorter \cup {docid}
  /\ \A d \in DOMAIN t.sorter \ {docid} : u.sorter[d] = t.sorter[d]
  /\ IsSeq(u.sorter[docid]) /\ Merge(method, u.sorter[docid]) = Addition(obkv)
  /\ Encoded(obkv, t.names)

\* Taking a document keeps Transform in order.
LEMMA TakesReads ==
  ASSUME NEW ix, Stores(ix), Identifies(ix), NEW t, NEW method, Reads(ix, t, method),
         NEW u, NEW id, NEW docid, NEW obkv, Takes(u, t, ix, method, id, docid, obkv)
  PROVE  Reads(ix, u, method)
<1>1. /\ IsFunction(u.builder) /\ DOMAIN u.builder = DOMAIN t.builder \cup {id}
      /\ u.builder[id] = docid
      /\ \A x \in DOMAIN t.builder \ {id} : u.builder[x] = t.builder[x]
  <2>1. u.builder = Over(Entry(id, docid), t.builder)
    BY DEF Takes
  <2>2. Puts(u.builder, id, docid, t.builder)
    BY <2>1, OverEntry
  <2> QED
    BY <2>2 DEF Puts
<1>2. \A x \in DOMAIN t.builder : t.builder[x] \in t.new_ids /\ t.builder[x] \in DOMAIN t.sorter
  BY DEF Reads
<1>3. \A x \in DOMAIN t.builder \ {id} : t.builder[x] # docid
  BY <1>2 DEF Reads, Takes
<1>4. Distinct(u.names) /\ Extends(u.names, ix.fields_ids_map)
  BY DEF Reads, Takes
<1>5. /\ u.available \subseteq AvailableIds(ix)
      /\ IsFunction(u.sorter) /\ DOMAIN u.sorter \subseteq AvailableIds(ix) \ u.available
  BY DEF Reads, Takes
<1>6. u.replaced \subseteq ix.documents_ids
  BY DEF Reads, Takes, Leads
<1>7. \A d \in DOMAIN u.sorter : IsSeq(u.sorter[d])
  BY DEF Reads, Takes
<1>8. DOMAIN u.builder \subseteq ExternalIds
  BY <1>1 DEF Reads, Takes
<1>9. \A x \in DOMAIN u.builder : u.builder[x] \in u.new_ids
  BY <1>1, <1>2 DEF Takes
<1>10. ASSUME NEW d \in u.new_ids
       PROVE  d \in DOMAIN u.sorter /\ \E x \in DOMAIN u.builder : u.builder[x] = d
  <2>1. CASE d = docid
    BY <1>1, <2>1 DEF Takes
  <2>2. CASE d # docid
    <3>1. d \in t.new_ids
      BY <2>2 DEF Takes
    <3>2. PICK x \in DOMAIN t.builder : t.builder[x] = d
      BY <3>1 DEF Reads
    <3>3. x # id
      BY <2>2, <3>2, <1>2 DEF Takes, Reads
    <3>4. d \in DOMAIN u.sorter
      BY <3>1 DEF Takes, Reads
    <3> QED
      BY <1>1, <3>2, <3>3, <3>4
  <2> QED
    BY <2>1, <2>2
<1>11. \A x, y \in DOMAIN u.builder : u.builder[x] = u.builder[y] => x = y
  BY <1>1, <1>3 DEF Reads
<1>12. \A x \in DOMAIN u.builder : \A d : Leads(ix, x, d) => d \in u.replaced
  BY <1>1 DEF Reads, Takes
<1>13. \A d \in DOMAIN u.sorter \ u.new_ids : Merge(method, u.sorter[d]) = Deletion
  BY DEF Reads, Takes
<1>14. ASSUME NEW d \in u.new_ids
       PROVE  \E o : Merge(method, u.sorter[d]) = Addition(o) /\ Encoded(o, u.names)
  <2>1. CASE d = docid
    BY <2>1 DEF Takes
  <2>2. CASE d # docid
    <3>1. d \in t.new_ids /\ d \in DOMAIN t.sorter /\ u.sorter[d] = t.sorter[d] /\ u.names = t.names
      BY <2>2 DEF Takes, Reads
    <3> QED
      BY <3>1 DEF Reads
  <2> QED
    BY <2>1, <2>2
<1> QED
  BY <1>1, <1>4, <1>5, <1>6, <1>7, <1>8, <1>9, <1>10, <1>11, <1>12, <1>13, <1>14 DEF Reads

\* The documents that the batch has made are the ones before, with the new one.
LEMMA TakesHolds ==
  ASSUME NEW ix, Stores(ix), Identifies(ix), NEW t, NEW method, Reads(ix, t, method),
         NEW u, NEW id, NEW docid, NEW obkv, Takes(u, t, ix, method, id, docid, obkv),
         NEW before, Holds(ix, t, method, before), NEW after, IsFunction(after),
         DOMAIN after = DOMAIN before \cup {id}, after[id] = Decode(t.names, obkv),
         \A x \in DOMAIN before \ {id} : after[x] = before[x]
  PROVE  Holds(ix, u, method, after)
<1>1. /\ IsFunction(u.builder) /\ DOMAIN u.builder = DOMAIN t.builder \cup {id}
      /\ u.builder[id] = docid
      /\ \A x \in DOMAIN t.builder \ {id} : u.builder[x] = t.builder[x]
  <2>1. u.builder = Over(Entry(id, docid), t.builder)
    BY DEF Takes
  <2>2. Puts(u.builder, id, docid, t.builder)
    BY <2>1, OverEntry
  <2> QED
    BY <2>2 DEF Puts
<1>2. \A x \in DOMAIN t.builder : t.builder[x] \in t.new_ids /\ t.builder[x] \in DOMAIN t.sorter
  BY DEF Reads
<1>3. \A x \in DOMAIN t.builder \ {id} : t.builder[x] # docid
  BY <1>2 DEF Reads, Takes
<1>4. \A x, y, d : Leads(ix, x, d) /\ Leads(ix, y, d) => x = y
  BY DEF Identifies
<1>5. \A x, d : Leads(ix, x, d) /\ d \notin u.replaced <=>
                x # id /\ Leads(ix, x, d) /\ d \notin t.replaced
  BY <1>4 DEF Takes
<1>6. ASSUME NEW x
      PROVE  x \in DOMAIN after <=>
               x \in DOMAIN u.builder \/ \E d : Leads(ix, x, d) /\ d \notin u.replaced
  <2>1. CASE x = id
    BY <1>1, <2>1
  <2>2. CASE x # id
    <3>1. x \in DOMAIN before <=>
            x \in DOMAIN t.builder \/ \E d : Leads(ix, x, d) /\ d \notin t.replaced
      BY DEF Holds
    <3> QED
      BY <1>1, <1>5, <2>2, <3>1
  <2> QED
    BY <2>1, <2>2
<1>7. ASSUME NEW x \in DOMAIN u.builder
      PROVE  after[x] = Decode(u.names, Merge(method, u.sorter[u.builder[x]]).obkv)
  <2>0. u.names = t.names
    BY DEF Takes
  <2>1. CASE x = id
    <3>1. Merge(method, u.sorter[docid]).obkv = obkv
      BY DEF Takes, Addition
    <3> QED
      BY <1>1, <2>0, <2>1, <3>1
  <2>2. CASE x # id
    <3>1. x \in DOMAIN t.builder /\ u.builder[x] = t.builder[x] /\ t.builder[x] # docid
      BY <1>1, <1>3, <2>2
    <3>2. u.sorter[t.builder[x]] = t.sorter[t.builder[x]]
      BY <1>2, <3>1 DEF Takes
    <3>3. x \in DOMAIN before /\ before[x] = Decode(t.names, Merge(method, t.sorter[t.builder[x]]).obkv)
      BY <3>1 DEF Holds
    <3>4. after[x] = before[x]
      BY <2>2, <3>3
    <3> QED
      BY <2>0, <3>1, <3>2, <3>3, <3>4
  <2> QED
    BY <2>1, <2>2
<1>8. ASSUME NEW x, NEW d, Leads(ix, x, d), d \notin u.replaced
      PROVE  after[x] = Decode(ix.fields_ids_map, ix.documents[d])
  <2>1. x # id /\ Leads(ix, x, d) /\ d \notin t.replaced
    BY <1>5, <1>8
  <2>2. x \in DOMAIN before /\ before[x] = Decode(ix.fields_ids_map, ix.documents[d])
    BY <2>1 DEF Holds
  <2> QED
    BY <2>1, <2>2
<1> QED
  BY <1>6, <1>7, <1>8 DEF Holds

\* The document that an addition leaves under an identifier.
LEMMA StoreAddFacts ==
  ASSUME NEW documents, IsFunction(documents), NEW document, NEW method
  PROVE  Puts(StoreAdd(documents, document, method), document.id,
              IF method = "UpdateDocuments" /\ document.id \in DOMAIN documents
              THEN Over(document.content, documents[document.id]) ELSE document.content,
              documents)
<1> DEFINE id == document.id
           r == StoreAdd(documents, document, method)
<1>1. CASE method = "UpdateDocuments" /\ id \in DOMAIN documents
  <2> DEFINE value == Over(document.content, documents[id])
  <2>1. r = [documents EXCEPT ![id] = value]
    BY <1>1 DEF StoreAdd
  <2> HIDE DEF value, r
  <2>2. Puts(r, id, value, documents)
    BY <1>1, <2>1 DEF Puts, IsFunction
  <2> QED
    BY <1>1, <2>2 DEF value, r
<1>2. CASE ~(method = "UpdateDocuments" /\ id \in DOMAIN documents)
  <2>1. r = Over(Entry(id, document.content), documents)
    BY <1>2 DEF StoreAdd
  <2>2. Puts(r, id, document.content, documents)
    BY <2>1, OverEntry
  <2> HIDE DEF r
  <2> QED
    BY <1>2, <2>2 DEF r
<1> QED
  BY <1>1, <1>2

\* A document equal to the one that is there changes nothing.
LEMMA StoreAddSame ==
  ASSUME NEW documents, IsFunction(documents), NEW document, NEW method, IsFunction(document.content),
         document.id \in DOMAIN documents, documents[document.id] = document.content
  PROVE  StoreAdd(documents, document, method) = documents
<1> DEFINE id == document.id
           r == StoreAdd(documents, document, method)
           value == IF method = "UpdateDocuments" /\ id \in DOMAIN documents
                    THEN Over(document.content, documents[id]) ELSE document.content
<1>1. Puts(r, id, value, documents)
  BY StoreAddFacts
<1>2. Over(document.content, document.content) = document.content
  <2> DEFINE c == document.content
  <2>1. IsFunction(c)
    OBVIOUS
  <2> HIDE DEF c
  <2>2. Over(c, c) = c
    BY <2>1 DEF Over, IsFunction
  <2> QED
    BY <2>2 DEF c
<1>3. value = document.content
  BY <1>2
<1> HIDE DEF r, value
<1>4. r = documents
  <2>1. IsFunction(r) /\ DOMAIN r = DOMAIN documents
    BY <1>1 DEF Puts
  <2>2. \A x \in DOMAIN r : r[x] = documents[x]
    BY <1>1, <1>3 DEF Puts
  <2> QED
    BY <2>1, <2>2, SameFunction
<1> QED
  BY <1>4 DEF r

\* A document that is left out: the id it was given is lost.
LEMMA SkipReads ==
  ASSUME NEW ix, NEW t, NEW method, Reads(ix, t, method), NEW docid,
         NEW u, u.names = t.names, u.available = t.available \ {docid}, u.replaced = t.replaced,
         u.builder = t.builder, u.new_ids = t.new_ids, u.sorter = t.sorter
  PROVE  /\ Reads(ix, u, method)
         /\ \A documents : Holds(ix, t, method, documents) => Holds(ix, u, method, documents)
<1>1. Reads(ix, u, method)
  BY DEF Reads
<1>2. \A documents : Holds(ix, t, method, documents) => Holds(ix, u, method, documents)
  BY DEF Holds
<1> QED
  BY <1>1, <1>2

\* The next id is one that is available.
LEMMA FreshFacts ==
  ASSUME NEW ix, NEW available, available \subseteq AvailableIds(ix), available # {}
  PROVE  (CHOOSE d \in available : \A e \in available : d <= e) \in available
<1>1. available \in SUBSET Nat
  BY IndexBounds DEF AvailableIds
<1>2. \E d \in available : \A e \in available : d <= e
  BY <1>1, LeastExists
<1> QED
  BY <1>2

\* The document obkv, merged with what the operations of the batch gave before.
Merged(method, known, old, obkv) ==
  IF method = "UpdateDocuments" /\ known THEN Over(obkv, old) ELSE obkv

\* A merged document is under the ids of the map, and reads as a partial update of the other.
LEMMA MergedFacts ==
  ASSUME NEW names, Distinct(names), NEW obkv, Encoded(obkv, names), NEW method, NEW known,
         NEW old, known => Encoded(old, names)
  PROVE  LET r == Merged(method, known, old, obkv) IN
         /\ Encoded(r, names)
         /\ Decode(names, r) = IF method = "UpdateDocuments" /\ known
                               THEN Over(Decode(names, obkv), Decode(names, old))
                               ELSE Decode(names, obkv)
<1>1. CASE method = "UpdateDocuments" /\ known
  BY <1>1, DecodeOver DEF Merged
<1>2. CASE ~(method = "UpdateDocuments" /\ known)
  BY <1>2 DEF Merged
<1> QED
  BY <1>1, <1>2

\* A document whose identifier the batch has met.
LEMMA OccupiedTakes ==
  ASSUME NEW ix, Stores(ix), Identifies(ix), NEW t, NEW method \in Methods, Reads(ix, t, method),
         NEW id \in DOMAIN t.builder, NEW obkv, Encoded(obkv, t.names),
         NEW u, u.names = t.names, u.available = t.available \ {t.builder[id]},
         u.replaced = t.replaced, u.builder = Over(Entry(id, t.builder[id]), t.builder),
         u.new_ids = t.new_ids \cup {t.builder[id]},
         u.sorter = Push(t.sorter, t.builder[id], Addition(obkv))
  PROVE  /\ Encoded(Merge(method, t.sorter[t.builder[id]]).obkv, t.names)
         /\ Takes(u, t, ix, method, id, t.builder[id],
                  Merged(method, TRUE, Merge(method, t.sorter[t.builder[id]]).obkv, obkv))
<1> DEFINE docid == t.builder[id]
           old == Merge(method, t.sorter[docid]).obkv
           new == Merged(method, TRUE, old, obkv)
<1>1. docid \in t.new_ids /\ docid \in DOMAIN t.sorter /\ IsSeq(t.sorter[docid])
  BY DEF Reads
<1>2. PICK o : Merge(method, t.sorter[docid]) = Addition(o) /\ Encoded(o, t.names)
  BY <1>1 DEF Reads
<1>3. old = o /\ Merge(method, t.sorter[docid]).deletion = FALSE
  BY <1>2 DEF Addition
<1>4. Distinct(t.names) /\ IsFunction(t.sorter) /\ Encoded(old, t.names)
  BY <1>2, <1>3 DEF Reads
<1>5. Encoded(new, t.names)
  BY <1>4, MergedFacts
<1>6. /\ IsFunction(u.sorter) /\ DOMAIN u.sorter = DOMAIN t.sorter \cup {docid}
      /\ \A e \in DOMAIN t.sorter \ {docid} : u.sorter[e] = t.sorter[e]
      /\ u.sorter[docid] = Append(t.sorter[docid], Addition(obkv))
  <2>1. Puts(u.sorter, docid, IF docid \in DOMAIN t.sorter
                              THEN Append(t.sorter[docid], Addition(obkv)) ELSE <<Addition(obkv)>>,
             t.sorter)
    BY <1>4, PushFacts
  <2> QED
    BY <1>1, <2>1 DEF Puts
<1>7. IsSeq(u.sorter[docid])
  BY <1>1, <1>6, AppendSeq
<1>8. Merge(method, u.sorter[docid]) = Addition(new)
  <2>1. CASE method = "ReplaceDocuments"
    BY <1>1, <1>6, <2>1, MergeAppend DEF Merged
  <2>2. CASE method = "UpdateDocuments"
    BY <1>1, <1>3, <1>6, <2>2, MergeAppend DEF Merged
  <2> QED
    BY <2>1, <2>2 DEF Methods
<1>9. docid \in AvailableIds(ix) \ u.available /\ u.available \subseteq t.available
  BY <1>1 DEF Reads
<1>10. /\ id \in ExternalIds
       /\ \A d : Leads(ix, id, d) => d \in u.replaced
  BY DEF Reads
<1> HIDE DEF new, old
<1>11. Takes(u, t, ix, method, id, docid, new)
  BY <1>5, <1>6, <1>7, <1>8, <1>9, <1>10 DEF Takes
<1> QED
  BY <1>4, <1>11 DEF new, old

\* A document whose identifier is new to the batch, and has no document in the index or one that
\* the batch has deleted.
LEMMA NewTakes ==
  ASSUME NEW ix, NEW t, NEW method \in Methods, Reads(ix, t, method),
         NEW id \in ExternalIds, id \notin DOMAIN t.builder, NEW docid \in t.available,
         \A d : Leads(ix, id, d) => d \in t.replaced, NEW obkv, Encoded(obkv, t.names),
         NEW u, u.names = t.names, u.available = t.available \ {docid},
         u.replaced = t.replaced, u.builder = Over(Entry(id, docid), t.builder),
         u.new_ids = t.new_ids \cup {docid},
         u.sorter = Push(t.sorter, docid, Addition(obkv))
  PROVE  Takes(u, t, ix, method, id, docid, obkv)
<1>1. docid \notin DOMAIN t.sorter /\ docid \in AvailableIds(ix) /\ IsFunction(t.sorter)
  BY DEF Reads
<1>2. /\ IsFunction(u.sorter) /\ DOMAIN u.sorter = DOMAIN t.sorter \cup {docid}
      /\ \A e \in DOMAIN t.sorter \ {docid} : u.sorter[e] = t.sorter[e]
      /\ u.sorter[docid] = <<Addition(obkv)>>
  <2>1. Puts(u.sorter, docid, IF docid \in DOMAIN t.sorter
                              THEN Append(t.sorter[docid], Addition(obkv)) ELSE <<Addition(obkv)>>,
             t.sorter)
    BY <1>1, PushFacts
  <2> QED
    BY <1>1, <2>1 DEF Puts
<1>3. IsSeq(u.sorter[docid]) /\ Merge(method, u.sorter[docid]) = Addition(obkv)
  BY <1>2, MergeSingle DEF Encoded
<1> QED
  BY <1>1, <1>2, <1>3 DEF Takes

\* The document that the identifier has in the index is taken up.
TakesUp(u, t, ix, method, id, docid, original, obkv) ==
  /\ Encoded(ix.documents[original], t.names)
  /\ Decode(t.names, ix.documents[original]) = Decode(ix.fields_ids_map, ix.documents[original])
  /\ Takes(u, t, ix, method, id, docid, Merged(method, TRUE, ix.documents[original], obkv))

\* A document whose identifier is new to the batch and has a document in the index.
LEMMA StoredTakes ==
  ASSUME NEW ix, Stores(ix), Identifies(ix), NEW t, NEW method \in Methods, Reads(ix, t, method),
         NEW id \in ExternalIds, id \notin DOMAIN t.builder, NEW docid \in t.available,
         NEW original, Leads(ix, id, original), NEW obkv, Encoded(obkv, t.names),
         NEW u, u.names = t.names, u.available = t.available \ {docid},
         u.replaced = t.replaced \cup {original}, u.builder = Over(Entry(id, docid), t.builder),
         u.new_ids = t.new_ids \cup {docid},
         u.sorter = Push(Push(t.sorter, docid, Addition(ix.documents[original])),
                         docid, Addition(obkv))
  PROVE  TakesUp(u, t, ix, method, id, docid, original, obkv)
<1> DEFINE old == ix.documents[original]
           new == Merged(method, TRUE, old, obkv)
<1>1. docid \notin DOMAIN t.sorter /\ docid \in AvailableIds(ix) /\ IsFunction(t.sorter)
  BY DEF Reads
<1>2. /\ Distinct(t.names) /\ Distinct(ix.fields_ids_map) /\ Extends(t.names, ix.fields_ids_map)
      /\ Encoded(old, ix.fields_ids_map)
  BY DEF Reads, Stores, Leads
<1> HIDE DEF old
<1>3. Encoded(old, t.names) /\ Decode(t.names, old) = Decode(ix.fields_ids_map, old)
  BY <1>2, DecodeExtended
<1>4. Encoded(new, t.names)
  BY <1>2, <1>3, MergedFacts
<1> DEFINE first == Push(t.sorter, docid, Addition(old))
<1>5. u.sorter = Push(first, docid, Addition(obkv))
  BY DEF old
<1>6. /\ IsFunction(first) /\ DOMAIN first = DOMAIN t.sorter \cup {docid}
      /\ \A e \in DOMAIN t.sorter \ {docid} : first[e] = t.sorter[e]
      /\ first[docid] = <<Addition(old)>>
  <2>1. Puts(first, docid, IF docid \in DOMAIN t.sorter
                           THEN Append(t.sorter[docid], Addition(old)) ELSE <<Addition(old)>>,
             t.sorter)
    BY <1>1, PushFacts
  <2> HIDE DEF first
  <2> QED
    BY <1>1, <2>1 DEF Puts
<1> HIDE DEF first
<1>7. /\ IsFunction(u.sorter) /\ DOMAIN u.sorter = DOMAIN first \cup {docid}
      /\ \A e \in DOMAIN first \ {docid} : u.sorter[e] = first[e]
      /\ u.sorter[docid] = Append(first[docid], Addition(obkv))
  <2>1. Puts(u.sorter, docid, IF docid \in DOMAIN first
                              THEN Append(first[docid], Addition(obkv)) ELSE <<Addition(obkv)>>,
             first)
    <3> DEFINE o == Addition(obkv)
    <3>1. IsFunction(first)
      BY <1>6
    <3> HIDE DEF o
    <3>2. Puts(Push(first, docid, o), docid,
               IF docid \in DOMAIN first THEN Append(first[docid], o) ELSE <<o>>, first)
      BY <3>1, PushFacts
    <3> QED
      BY <1>5, <3>2, Zenon DEF o
  <2>2. docid \in DOMAIN first
    BY <1>6
  <2> QED
    BY <2>1, <2>2 DEF Puts
<1>8. IsSeq(first[docid]) /\ Merge(method, first[docid]) = Addition(old)
  BY <1>3, <1>6, MergeSingle DEF Encoded
<1>9. Merge(method, first[docid]).deletion = FALSE /\ Merge(method, first[docid]).obkv = old
  BY <1>8 DEF Addition
<1>10. IsSeq(u.sorter[docid])
  BY <1>7, <1>8, AppendSeq
<1>11. Merge(method, u.sorter[docid]) = Addition(new)
  <2>1. CASE method = "ReplaceDocuments"
    BY <1>7, <1>8, <2>1, MergeAppend DEF Merged
  <2>2. CASE method = "UpdateDocuments"
    BY <1>7, <1>8, <1>9, <2>2, MergeAppend DEF Merged
  <2> QED
    BY <2>1, <2>2 DEF Methods
<1>12. /\ IsFunction(u.sorter) /\ DOMAIN u.sorter = DOMAIN t.sorter \cup {docid}
       /\ \A e \in DOMAIN t.sorter \ {docid} : u.sorter[e] = t.sorter[e]
  BY <1>6, <1>7
<1>13. \A d : Leads(ix, id, d) => d = original
  BY DEF Leads
<1> HIDE DEF new
<1>14. Takes(u, t, ix, method, id, docid, new)
  BY <1>1, <1>4, <1>10, <1>11, <1>12, <1>13 DEF Takes
<1> QED
  BY <1>3, <1>14 DEF new, old, TakesUp

\* The step from t to u reads a document.
AddsOne(ix, t, u, method, document) ==
  /\ IsTransform(u)
  /\ \/ u.failed
     \/ /\ ~t.failed /\ u.added = t.added + 1 /\ Reads(ix, u, method)
        /\ \A documents : Holds(ix, t, method, documents) =>
             Holds(ix, u, method, StoreAdd(documents, document, method))

\* A step that takes a document gives its identifier what the addition asks for, whether that
\* identifier had a document (known) or not.
LEMMA TakesAdds ==
  ASSUME NEW ix, Stores(ix), Identifies(ix), NEW t, NEW method \in Methods, Reads(ix, t, method),
         NEW document, NEW obkv, Encoded(obkv, t.names), Decode(t.names, obkv) = document.content,
         NEW known \in BOOLEAN, NEW old, known => Encoded(old, t.names),
         NEW u, NEW docid,
         Takes(u, t, ix, method, document.id, docid, Merged(method, known, old, obkv)),
         NEW documents, Holds(ix, t, method, documents),
         known <=> document.id \in DOMAIN documents,
         known => documents[document.id] = Decode(t.names, old)
  PROVE  Holds(ix, u, method, StoreAdd(documents, document, method))
<1> DEFINE id == document.id
           after == StoreAdd(documents, document, method)
           new == Merged(method, known, old, obkv)
           value == IF method = "UpdateDocuments" /\ id \in DOMAIN documents
                    THEN Over(document.content, documents[id]) ELSE document.content
<1>1. Distinct(t.names) /\ IsFunction(documents)
  BY DEF Reads, Holds
<1>2. Puts(after, id, value, documents)
  BY <1>1, StoreAddFacts
<1>3. Decode(t.names, new) = IF method = "UpdateDocuments" /\ known
                             THEN Over(Decode(t.names, obkv), Decode(t.names, old))
                             ELSE Decode(t.names, obkv)
  BY <1>1, MergedFacts
<1>4. Decode(t.names, new) = value
  BY <1>3
<1> HIDE DEF after, new, value, id
<1>5. /\ IsFunction(after) /\ DOMAIN after = DOMAIN documents \cup {id}
      /\ after[id] = Decode(t.names, new)
      /\ \A x \in DOMAIN documents \ {id} : after[x] = documents[x]
  BY <1>2, <1>4 DEF Puts
<1>6. Takes(u, t, ix, method, id, docid, new)
  BY DEF id, new
<1>7. Holds(ix, u, method, after)
  BY <1>5, <1>6, TakesHolds
<1> QED
  BY <1>7 DEF after

\* Transform reads one document of a payload as the promise adds it.
LEMMA ReadDocumentReads ==
  ASSUME NEW ix, Good(ix), NEW t, IsTransform(t), NEW method \in Methods,
         NEW document \in Documents, DOMAIN document.content \subseteq Range(t.names),
         t.failed \/ Reads(ix, t, method)
  PROVE  AddsOne(ix, t, ReadDocument(ix, t, document), method, document)
<1> DEFINE id       == document.id
           obkv     == Encode(t.names, document.content)
           occupied == id \in DOMAIN t.builder
           stored   == get(ix, id)
           fresh    == CHOOSE d \in t.available : \A e \in t.available : d <= e
           docid    == IF occupied THEN t.builder[id] ELSE fresh
           original == IF occupied \/ stored = None \/ stored \in t.replaced THEN None ELSE stored
           skip     == original # None /\ ix.documents[original] = obkv
           base     == IF original = None THEN t.sorter
                       ELSE Push(t.sorter, docid, Addition(ix.documents[original]))
           replaced == IF original = None THEN t.replaced ELSE t.replaced \cup {original}
           sorter   == Push(base, docid, Addition(obkv))
           taken    == [t EXCEPT !.available = @ \ {docid}, !.added = @ + 1]
           refused  == t.failed \/ (~occupied /\ t.available = {})
           u        == ReadDocument(ix, t, document)
<1>1. refused => u = [t EXCEPT !.failed = TRUE]
  BY DEF ReadDocument
<1>2. ~refused /\ skip => u = taken
  BY DEF ReadDocument
<1>3. ~refused /\ ~skip =>
        u = [taken EXCEPT !.replaced = replaced, !.builder = Over(Entry(id, docid), @),
                          !.new_ids = @ \cup {docid}, !.sorter = sorter]
  BY DEF ReadDocument, IsTransform
<1> SUFFICES AddsOne(ix, t, u, method, document)
  OBVIOUS
<1> HIDE DEF u
<1>4. CASE refused
  <2>1. IsTransform(u) /\ u.failed = TRUE
    BY <1>1, <1>4 DEF IsTransform
  <2> QED
    BY <2>1, Zenon DEF AddsOne
<1>5. CASE ~refused
  <2>1. Stores(ix) /\ Identifies(ix) /\ Reads(ix, t, method) /\ ~t.failed
    BY <1>5 DEF Good
  <2>2. /\ id \in ExternalIds /\ IsFunction(document.content)
        /\ Distinct(t.names) /\ Extends(t.names, ix.fields_ids_map)
        /\ \A f \in DOMAIN document.content : IsValue(document.content[f])
    BY <2>1, ContentsAssumption DEF Documents, Reads, IsFunction, IsValue
  <2>3. Encoded(obkv, t.names) /\ Decode(t.names, obkv) = document.content
    BY <2>2, EncodeFacts
  <2>4. /\ stored # None => Leads(ix, id, stored)
        /\ \A d : Leads(ix, id, d) => stored = d /\ d # None
    BY <2>1, GetFacts
  <2>5. ~occupied => docid \in t.available
    BY <1>5, <2>1, FreshFacts DEF Reads
  <2> HIDE DEF obkv, stored, fresh
  <2>6. CASE skip
    <3>1. u = taken
      BY <1>2, <1>5, <2>6
    <3>2. /\ IsTransform(u) /\ u.added = t.added + 1 /\ Reads(ix, u, method)
          /\ \A documents : Holds(ix, t, method, documents) => Holds(ix, u, method, documents)
      <4> HIDE DEF docid
      <4>1. /\ IsTransform(u) /\ u.names = t.names /\ u.added = t.added + 1
            /\ u.available = t.available \ {docid} /\ u.replaced = t.replaced
            /\ u.builder = t.builder /\ u.new_ids = t.new_ids /\ u.sorter = t.sorter
        BY <3>1 DEF IsTransform
      <4> QED
        BY <2>1, <4>1, SkipReads
    <3>3. ASSUME NEW documents, Holds(ix, t, method, documents)
          PROVE  StoreAdd(documents, document, method) = documents
      <4>1. original = stored /\ Leads(ix, id, stored) /\ stored \notin t.replaced
        BY <2>4, <2>6
      <4>2. documents[id] = Decode(ix.fields_ids_map, ix.documents[stored]) /\ id \in DOMAIN documents
        BY <3>3, <4>1 DEF Holds
      <4>3. ix.documents[stored] = obkv /\ Encoded(ix.documents[stored], ix.fields_ids_map)
            /\ Distinct(ix.fields_ids_map)
        BY <2>1, <2>6, <4>1 DEF Stores, Leads
      <4>4. Decode(t.names, ix.documents[stored]) = Decode(ix.fields_ids_map, ix.documents[stored])
        BY <2>2, <4>3, DecodeExtended
      <4>5. documents[id] = document.content /\ IsFunction(documents)
        BY <2>3, <3>3, <4>2, <4>3, <4>4 DEF Holds
      <4> QED
        BY <2>2, <4>2, <4>5, StoreAddSame
    <3>4. ASSUME NEW documents, Holds(ix, t, method, documents)
          PROVE  Holds(ix, u, method, StoreAdd(documents, document, method))
      BY <3>2, <3>3, <3>4, Zenon
    <3>5. ~t.failed /\ IsTransform(u) /\ u.added = t.added + 1 /\ Reads(ix, u, method)
      BY <2>1, <3>2
    <3> QED
      BY <3>4, <3>5, Zenon DEF AddsOne
  <2>7. CASE ~skip
    <3>1. u = [taken EXCEPT !.replaced = replaced, !.builder = Over(Entry(id, docid), @),
                            !.new_ids = @ \cup {docid}, !.sorter = sorter]
      BY <1>3, <1>5, <2>7
    <3>2. /\ IsTransform(u) /\ u.names = t.names /\ u.added = t.added + 1
          /\ u.available = t.available \ {docid} /\ u.replaced = replaced
          /\ u.builder = Over(Entry(id, docid), t.builder)
          /\ u.new_ids = t.new_ids \cup {docid} /\ u.sorter = sorter
      <4> HIDE DEF docid, replaced, sorter, id
      <4> QED
        BY <3>1 DEF IsTransform
    <3>3. CASE occupied
      <4> DEFINE old == Merge(method, t.sorter[t.builder[id]]).obkv
      <4>1. docid = t.builder[id] /\ replaced = t.replaced
            /\ sorter = Push(t.sorter, docid, Addition(obkv))
        BY <3>3
      <4>2. /\ Encoded(old, t.names)
            /\ Takes(u, t, ix, method, id, t.builder[id], Merged(method, TRUE, old, obkv))
        BY <2>1, <2>3, <3>2, <3>3, <4>1, OccupiedTakes
      <4>3. Reads(ix, u, method)
        BY <2>1, <4>2, TakesReads
      <4>4. ASSUME NEW documents, Holds(ix, t, method, documents)
            PROVE  Holds(ix, u, method, StoreAdd(documents, document, method))
        <5>1. id \in DOMAIN documents /\ documents[id] = Decode(t.names, old)
          BY <3>3, <4>4 DEF Holds
        <5> HIDE DEF old
        <5> QED
          BY <2>1, <2>3, <4>2, <4>4, <5>1, TakesAdds
      <4> QED
        <5>1. ~t.failed /\ IsTransform(u) /\ u.added = t.added + 1
          BY <2>1, <3>2
        <5> QED
          BY <4>3, <4>4, <5>1, Zenon DEF AddsOne
    <3>4. CASE ~occupied /\ original = None
      <4>1. /\ docid \in t.available /\ replaced = t.replaced
            /\ sorter = Push(t.sorter, docid, Addition(obkv))
        BY <2>5, <3>4
      <4>2. \A d : Leads(ix, id, d) => d \in t.replaced
        BY <2>4, <3>4
      <4>3. Takes(u, t, ix, method, id, docid, obkv)
        <5> HIDE DEF docid
        <5> QED
          BY <2>1, <2>2, <2>3, <3>2, <3>4, <4>1, <4>2, NewTakes
      <4>4. Takes(u, t, ix, method, id, docid, Merged(method, FALSE, obkv, obkv))
        BY <4>3 DEF Merged
      <4> HIDE DEF docid
      <4>5. Reads(ix, u, method)
        BY <2>1, <4>3, TakesReads
      <4>6. ASSUME NEW documents, Holds(ix, t, method, documents)
            PROVE  Holds(ix, u, method, StoreAdd(documents, document, method))
        <5>1. id \notin DOMAIN documents
          BY <3>4, <4>2, <4>6 DEF Holds
        <5> QED
          BY <2>1, <2>3, <4>4, <4>6, <5>1, TakesAdds
      <4> QED
        <5>1. ~t.failed /\ IsTransform(u) /\ u.added = t.added + 1
          BY <2>1, <3>2
        <5> QED
          BY <4>5, <4>6, <5>1, Zenon DEF AddsOne
    <3>5. CASE original # None
      <4> DEFINE old == ix.documents[original]
      <4>1. /\ ~occupied /\ original = stored /\ Leads(ix, id, original) /\ original \notin t.replaced
            /\ docid \in t.available /\ replaced = t.replaced \cup {original}
            /\ sorter = Push(Push(t.sorter, docid, Addition(old)), docid, Addition(obkv))
        BY <2>4, <2>5, <3>5
      <4>2. /\ u.names = t.names /\ u.available = t.available \ {docid}
            /\ u.replaced = t.replaced \cup {original}
            /\ u.builder = Over(Entry(id, docid), t.builder)
            /\ u.new_ids = t.new_ids \cup {docid}
            /\ u.sorter = Push(Push(t.sorter, docid, Addition(old)), docid, Addition(obkv))
        BY <3>2, <4>1
      <4>3. /\ Encoded(old, t.names)
            /\ Decode(t.names, old) = Decode(ix.fields_ids_map, old)
            /\ Takes(u, t, ix, method, id, docid, Merged(method, TRUE, old, obkv))
        <5> HIDE DEF docid, original
        <5>1. /\ Stores(ix) /\ Identifies(ix) /\ Reads(ix, t, method) /\ Encoded(obkv, t.names)
              /\ id \in ExternalIds /\ id \notin DOMAIN t.builder /\ docid \in t.available
              /\ Leads(ix, id, original)
          BY <2>1, <2>2, <2>3, <4>1
        <5>2. TakesUp(u, t, ix, method, id, docid, original, obkv)
          BY <4>2, <5>1, StoredTakes
        <5> QED
          BY <5>2 DEF TakesUp
      <4> HIDE DEF docid
      <4>4. Reads(ix, u, method)
        BY <2>1, <4>3, TakesReads
      <4>5. ASSUME NEW documents, Holds(ix, t, method, documents)
            PROVE  Holds(ix, u, method, StoreAdd(documents, document, method))
        <5>1. id \in DOMAIN documents /\ documents[id] = Decode(ix.fields_ids_map, old)
          BY <4>1, <4>5 DEF Holds
        <5> HIDE DEF old, original
        <5> QED
          BY <2>1, <2>3, <4>3, <4>5, <5>1, TakesAdds
      <4> QED
        <5>1. ~t.failed /\ IsTransform(u) /\ u.added = t.added + 1
          BY <2>1, <3>2
        <5> QED
          BY <4>4, <4>5, <5>1, Zenon DEF AddsOne
    <3> QED
      BY <3>3, <3>4, <3>5
  <2> QED
    BY <2>6, <2>7
<1> QED
  BY <1>4, <1>5

\* The step from t to u removes the documents of ids.
Removes(ix, t, u, method, ids) ==
  /\ IsTransform(u)
  /\ \/ u.failed
     \/ /\ ~t.failed /\ u.added = t.added /\ Reads(ix, u, method)
        /\ \A documents : Holds(ix, t, method, documents) =>
             Holds(ix, u, method, Restrict(documents, DOMAIN documents \ ids))

\* Transform::remove_documents removes what the promise removes.
LEMMA RemoveReads ==
  ASSUME NEW ix, Good(ix), NEW t, IsTransform(t), NEW method \in Methods, NEW ids,
         t.failed \/ Reads(ix, t, method)
  PROVE  Removes(ix, t, remove_documents(ix, t, ids), method, ids)
<1> DEFINE occupied == ids \cap DOMAIN t.builder
           gone     == {t.builder[id] : id \in occupied}
           found    == {get(ix, id) : id \in ids \ occupied} \ {None}
           sorter   == [d \in DOMAIN t.sorter |->
                          IF d \in gone THEN Append(t.sorter[d], Deletion) ELSE t.sorter[d]]
           builder  == Restrict(t.builder, DOMAIN t.builder \ ids)
           u        == remove_documents(ix, t, ids)
<1>1. u = [t EXCEPT !.sorter = sorter, !.new_ids = @ \ gone, !.builder = builder,
                    !.replaced = @ \cup found]
  BY DEF remove_documents, IsTransform
<1> SUFFICES Removes(ix, t, u, method, ids)
  OBVIOUS
<1> HIDE DEF u, sorter, builder, gone, found
<1>2. /\ IsTransform(u) /\ u.failed = t.failed /\ u.added = t.added /\ u.names = t.names
      /\ u.available = t.available /\ u.replaced = t.replaced \cup found
      /\ u.builder = builder /\ u.new_ids = t.new_ids \ gone /\ u.sorter = sorter
  BY <1>1 DEF IsTransform
<1>3. CASE t.failed
  <2>1. IsTransform(u) /\ u.failed
    BY <1>2, <1>3
  <2> QED
    BY <2>1, Zenon DEF Removes
<1>4. CASE ~t.failed
  <2>1. Stores(ix) /\ Identifies(ix) /\ Reads(ix, t, method)
    BY <1>4 DEF Good
  <2>2. /\ IsFunction(builder) /\ DOMAIN builder = DOMAIN t.builder \ ids
        /\ \A x \in DOMAIN t.builder \ ids : builder[x] = t.builder[x]
    <3> DEFINE b == t.builder
               S == DOMAIN b \ ids
    <3> HIDE DEF b, S
    <3>1. /\ IsFunction(Restrict(b, S)) /\ DOMAIN Restrict(b, S) = S
          /\ \A x \in S : Restrict(b, S)[x] = b[x]
      BY RestrictFacts
    <3> QED
      BY <3>1, Zenon DEF b, S, builder
  <2>3. \A d : d \in gone <=> \E x \in DOMAIN t.builder : x \in ids /\ t.builder[x] = d
    BY DEF gone
  <2>4. \A x, d : Leads(ix, x, d) => get(ix, x) = d /\ d # None
    BY <2>1, GetFacts
  <2>5. \A x : get(ix, x) # None => Leads(ix, x, get(ix, x))
    BY <2>1, GetFacts
  <2>6. ASSUME NEW d PROVE d \in found <=> \E x \in ids : x \notin DOMAIN t.builder /\ Leads(ix, x, d)
    <3>1. d \in found <=> d # None /\ \E x \in ids : x \notin DOMAIN t.builder /\ get(ix, x) = d
      BY DEF found
    <3> QED
      BY <2>4, <2>5, <3>1
  <2>7. \A x \in ids : \A d : Leads(ix, x, d) => d \in u.replaced
    BY <1>2, <2>1, <2>6 DEF Reads
  <2>8. \A x, y, d : Leads(ix, x, d) /\ Leads(ix, y, d) => x = y
    BY <2>1 DEF Identifies
  <2>9. \A x, d : Leads(ix, x, d) /\ d \notin u.replaced <=>
                  x \notin ids /\ Leads(ix, x, d) /\ d \notin t.replaced
    BY <1>2, <2>6, <2>7, <2>8
  <2>10. /\ IsFunction(u.sorter) /\ DOMAIN u.sorter = DOMAIN t.sorter
         /\ \A d \in DOMAIN t.sorter :
              u.sorter[d] = IF d \in gone THEN Append(t.sorter[d], Deletion) ELSE t.sorter[d]
    BY <1>2 DEF sorter, IsFunction
  <2>11. \A x \in DOMAIN u.builder : /\ x \in DOMAIN t.builder /\ x \notin ids
                                     /\ u.builder[x] = t.builder[x] /\ t.builder[x] \notin gone
                                     /\ t.builder[x] \in t.new_ids /\ t.builder[x] \in DOMAIN t.sorter
    BY <1>2, <2>1, <2>2, <2>3 DEF Reads
  <2>12. Reads(ix, u, method)
    <3>1. /\ Distinct(u.names) /\ Extends(u.names, ix.fields_ids_map)
          /\ u.available \subseteq AvailableIds(ix)
          /\ IsFunction(u.sorter) /\ DOMAIN u.sorter \subseteq AvailableIds(ix) \ u.available
      BY <1>2, <2>1, <2>10 DEF Reads
    <3>2. u.replaced \subseteq ix.documents_ids
      <4>1. \A d \in found : d \in ix.documents_ids
        BY <2>6 DEF Leads
      <4> QED
        BY <1>2, <2>1, <4>1 DEF Reads
    <3>3. \A d \in DOMAIN u.sorter : IsSeq(u.sorter[d])
      BY <2>1, <2>10, AppendSeq DEF Reads
    <3>4. IsFunction(u.builder) /\ DOMAIN u.builder \subseteq ExternalIds
      BY <1>2, <2>1, <2>2 DEF Reads
    <3>5. \A x \in DOMAIN u.builder : u.builder[x] \in u.new_ids
      BY <1>2, <2>11
    <3>6. ASSUME NEW d \in u.new_ids
          PROVE  d \in DOMAIN u.sorter /\ \E x \in DOMAIN u.builder : u.builder[x] = d
      <4>1. d \in t.new_ids /\ d \notin gone
        BY <1>2, <3>6
      <4>2. d \in DOMAIN t.sorter /\ \E x \in DOMAIN t.builder : t.builder[x] = d
        BY <2>1, <4>1 DEF Reads
      <4>3. PICK x \in DOMAIN t.builder : t.builder[x] = d
        BY <4>2
      <4>4. x \notin ids
        BY <2>3, <4>1, <4>3
      <4>5. x \in DOMAIN u.builder /\ u.builder[x] = d
        BY <1>2, <2>2, <4>3, <4>4
      <4> QED
        BY <2>10, <4>2, <4>5
    <3>7. \A x, y \in DOMAIN u.builder : u.builder[x] = u.builder[y] => x = y
      BY <2>1, <2>11 DEF Reads
    <3>8. \A x \in DOMAIN u.builder : \A d : Leads(ix, x, d) => d \in u.replaced
      BY <1>2, <2>1, <2>11 DEF Reads
    <3>9. ASSUME NEW d \in DOMAIN u.sorter \ u.new_ids
          PROVE  Merge(method, u.sorter[d]) = Deletion
      <4>1. d \in DOMAIN t.sorter /\ IsSeq(t.sorter[d])
        BY <2>1, <2>10, <3>9 DEF Reads
      <4>2. CASE d \in gone
        <5>1. u.sorter[d] = Append(t.sorter[d], Deletion)
          BY <2>10, <4>1, <4>2
        <5> QED
          BY <4>1, <5>1, MergeAppend
      <4>3. CASE d \notin gone
        <5>1. d \notin t.new_ids /\ u.sorter[d] = t.sorter[d]
          BY <1>2, <2>10, <3>9, <4>1, <4>3
        <5> QED
          BY <2>1, <4>1, <5>1 DEF Reads
      <4> QED
        BY <4>2, <4>3
    <3>10. ASSUME NEW d \in u.new_ids
           PROVE  \E o : Merge(method, u.sorter[d]) = Addition(o) /\ Encoded(o, u.names)
      <4>1. d \in t.new_ids /\ d \notin gone
        BY <1>2, <3>10
      <4>2. d \in DOMAIN t.sorter
        BY <2>1, <4>1 DEF Reads
      <4>3. u.sorter[d] = t.sorter[d] /\ u.names = t.names
        BY <1>2, <2>10, <4>1, <4>2
      <4> QED
        BY <2>1, <4>1, <4>3 DEF Reads
    <3> QED
      BY <3>1, <3>2, <3>3, <3>4, <3>5, <3>6, <3>7, <3>8, <3>9, <3>10 DEF Reads
  <2>13. ASSUME NEW documents, Holds(ix, t, method, documents)
         PROVE  Holds(ix, u, method, Restrict(documents, DOMAIN documents \ ids))
    <3> DEFINE S == DOMAIN documents \ ids
               r == Restrict(documents, S)
    <3>1. IsFunction(r) /\ DOMAIN r = S /\ \A x \in S : r[x] = documents[x]
      <4> HIDE DEF S
      <4> QED
        BY RestrictFacts
    <3> HIDE DEF r
    <3>2. ASSUME NEW x
          PROVE  x \in DOMAIN r <=>
                   x \in DOMAIN u.builder \/ \E d : Leads(ix, x, d) /\ d \notin u.replaced
      <4>1. x \in DOMAIN documents <=>
              x \in DOMAIN t.builder \/ \E d : Leads(ix, x, d) /\ d \notin t.replaced
        BY <2>13 DEF Holds
      <4> QED
        BY <1>2, <2>2, <2>9, <3>1, <4>1
    <3>3. ASSUME NEW x \in DOMAIN u.builder
          PROVE  r[x] = Decode(u.names, Merge(method, u.sorter[u.builder[x]]).obkv)
      <4>1. documents[x] = Decode(t.names, Merge(method, t.sorter[t.builder[x]]).obkv)
        BY <2>11, <2>13, <3>3 DEF Holds
      <4>2. x \in S
        BY <2>11, <2>13, <3>3 DEF Holds
      <4>3. u.sorter[u.builder[x]] = t.sorter[t.builder[x]]
        BY <2>10, <2>11, <3>3
      <4> QED
        BY <1>2, <3>1, <4>1, <4>2, <4>3
    <3>4. ASSUME NEW x, NEW d, Leads(ix, x, d), d \notin u.replaced
          PROVE  r[x] = Decode(ix.fields_ids_map, ix.documents[d])
      <4>1. x \notin ids /\ Leads(ix, x, d) /\ d \notin t.replaced
        BY <2>9, <3>4
      <4>2. x \in DOMAIN documents /\ documents[x] = Decode(ix.fields_ids_map, ix.documents[d])
        BY <2>13, <4>1 DEF Holds
      <4> QED
        BY <3>1, <4>1, <4>2
    <3>5. Holds(ix, u, method, r)
      BY <3>1, <3>2, <3>3, <3>4 DEF Holds
    <3> QED
      BY <3>5 DEF r
  <2>14. ~t.failed /\ IsTransform(u) /\ u.added = t.added
    BY <1>2, <1>4
  <2> QED
    BY <2>12, <2>13, <2>14, Zenon DEF Removes
<1> QED
  BY <1>3, <1>4

\* The names that the fields of a payload are given change nothing else.
LEMMA NamedReads ==
  ASSUME NEW ix, NEW t, NEW method, Reads(ix, t, method), NEW longer, Distinct(longer),
         Distinct(ix.fields_ids_map), Extends(longer, t.names), NEW u, u.names = longer,
         u.available = t.available, u.replaced = t.replaced, u.builder = t.builder,
         u.new_ids = t.new_ids, u.sorter = t.sorter
  PROVE  /\ Reads(ix, u, method)
         /\ \A documents : Holds(ix, t, method, documents) => Holds(ix, u, method, documents)
<1>1. Distinct(t.names) /\ Extends(t.names, ix.fields_ids_map)
  BY DEF Reads
<1>2. Extends(longer, ix.fields_ids_map)
  BY <1>1, ExtendsFacts
<1>3. ASSUME NEW d \in t.new_ids
      PROVE  \E o : /\ Merge(method, t.sorter[d]) = Addition(o) /\ Encoded(o, longer)
                    /\ Decode(longer, o) = Decode(t.names, o)
  <2>1. PICK o : Merge(method, t.sorter[d]) = Addition(o) /\ Encoded(o, t.names)
    BY <1>3 DEF Reads
  <2>2. Encoded(o, longer) /\ Decode(longer, o) = Decode(t.names, o)
    BY <1>1, <2>1, DecodeExtended
  <2> QED
    BY <2>1, <2>2
<1>4. Reads(ix, u, method)
  BY <1>2, <1>3 DEF Reads
<1>5. ASSUME NEW documents, Holds(ix, t, method, documents)
      PROVE  Holds(ix, u, method, documents)
  <2>1. ASSUME NEW id \in DOMAIN t.builder
        PROVE  Decode(longer, Merge(method, t.sorter[t.builder[id]]).obkv)
                 = Decode(t.names, Merge(method, t.sorter[t.builder[id]]).obkv)
    <3>1. t.builder[id] \in t.new_ids
      BY <2>1 DEF Reads
    <3>2. PICK o : /\ Merge(method, t.sorter[t.builder[id]]) = Addition(o)
                   /\ Decode(longer, o) = Decode(t.names, o)
      BY <1>3, <3>1
    <3>3. Merge(method, t.sorter[t.builder[id]]).obkv = o
      BY <3>2 DEF Addition
    <3> QED
      BY <3>2, <3>3
  <2> QED
    BY <1>5, <2>1 DEF Holds
<1> QED
  BY <1>4, <1>5

\* read_documents and the promise, of a payload of at most one document.
LEMMA ReadDocumentsFacts ==
  ASSUME NEW ix, NEW t, NEW documents
  PROVE  LET named == [t EXCEPT !.names = InsertFields(@, FieldOrder, FieldsOf(documents))] IN
         /\ Len(documents) = 0 => read_documents(ix, t, documents) = named
         /\ Len(documents) = 1 =>
              read_documents(ix, t, documents) = ReadDocument(ix, named, documents[1])
<1> DEFINE named == [t EXCEPT !.names = InsertFields(@, FieldOrder, FieldsOf(documents))]
           Step(before, i) == IF i = 0 THEN named ELSE ReadDocument(ix, before, documents[i])
           last == Len(documents)
           after == CHOOSE g : g = [i \in 0 .. last |-> Step(g[i - 1], i)]
<1>1. read_documents(ix, t, documents) = after[last]
  BY Zenon DEF read_documents
<1>2. \A x : Step(x, 0) = named /\ Step(x, 1) = ReadDocument(ix, x, documents[1])
  OBVIOUS
<1> HIDE DEF Step, named
<1>3. ASSUME last = 0 PROVE after[last] = named
  <2> DEFINE w == [i \in 0 .. 0 |-> named]
  <2>1. w = [i \in 0 .. 0 |-> Step(w[i - 1], i)]
    BY <1>2
  <2> HIDE DEF w
  <2>2. \E g : g = [i \in 0 .. last |-> Step(g[i - 1], i)]
    BY <1>3, <2>1
  <2>3. after = [i \in 0 .. last |-> Step(after[i - 1], i)]
    BY <2>2, Zenon
  <2> HIDE DEF after
  <2>4. after[0] = Step(after[0 - 1], 0)
    BY <1>3, <2>3
  <2> QED
    BY <1>2, <1>3, <2>4
<1>4. ASSUME last = 1 PROVE after[last] = ReadDocument(ix, named, documents[1])
  <2> DEFINE w == [i \in 0 .. 1 |-> IF i = 0 THEN named ELSE Step(named, 1)]
  <2>1. w = [i \in 0 .. 1 |-> Step(w[i - 1], i)]
    <3>1. ASSUME NEW i \in 0 .. 1 PROVE w[i] = Step(w[i - 1], i)
      <4>1. CASE i = 0
        BY <1>2, <4>1
      <4>2. CASE i = 1
        <5>1. w[1] = Step(named, 1) /\ w[0] = named /\ i - 1 = 0
          BY <4>2
        <5> QED
          BY <4>2, <5>1
      <4> QED
        BY <4>1, <4>2
    <3> QED
      BY <3>1
  <2> HIDE DEF w
  <2>2. \E g : g = [i \in 0 .. last |-> Step(g[i - 1], i)]
    BY <1>4, <2>1
  <2>3. after = [i \in 0 .. last |-> Step(after[i - 1], i)]
    BY <2>2, Zenon
  <2> HIDE DEF after
  <2>4. after[0] = Step(after[0 - 1], 0) /\ after[1] = Step(after[1 - 1], 1) /\ 1 - 1 = 0
    BY <1>4, <2>3
  <2>5. after[0] = named
    BY <1>2, <2>4
  <2>6. after[1] = Step(named, 1)
    BY <2>4, <2>5
  <2> QED
    BY <1>2, <1>4, <2>6
<1> QED
  BY <1>1, <1>3, <1>4 DEF named

\* What the promise makes of an operation with at most one document.
Applied(r, documents, operation, method) ==
  /\ operation.type # "addition" => r = Restrict(documents, DOMAIN documents \ operation.ids)
  /\ operation.type = "addition" /\ Len(operation.documents) = 0 => r = documents
  /\ operation.type = "addition" /\ Len(operation.documents) = 1 =>
       r = StoreAdd(documents, operation.documents[1], method)

\* The promise, with its recursion undone.
LEMMA StoreApplyFacts ==
  ASSUME NEW documents, NEW operation, NEW method
  PROVE  Applied(StoreApply(documents, operation, method), documents, operation, method)
<1> DEFINE Step(before, i) == IF i = 0 THEN documents
                              ELSE StoreAdd(before, operation.documents[i], method)
           last == Len(operation.documents)
           after == CHOOSE g : g = [i \in 0 .. last |-> Step(g[i - 1], i)]
<1>1. StoreApply(documents, operation, method)
        = IF operation.type = "addition" THEN after[last]
          ELSE Restrict(documents, DOMAIN documents \ operation.ids)
  BY Zenon DEF StoreApply
<1>2. \A x : Step(x, 0) = documents /\ Step(x, 1) = StoreAdd(x, operation.documents[1], method)
  OBVIOUS
<1> HIDE DEF Step
<1>3. ASSUME last = 0 PROVE after[last] = documents
  <2> DEFINE w == [i \in 0 .. 0 |-> documents]
  <2>1. w = [i \in 0 .. 0 |-> Step(w[i - 1], i)]
    BY <1>2
  <2> HIDE DEF w
  <2>2. \E g : g = [i \in 0 .. last |-> Step(g[i - 1], i)]
    BY <1>3, <2>1
  <2>3. after = [i \in 0 .. last |-> Step(after[i - 1], i)]
    BY <2>2, Zenon
  <2> HIDE DEF after
  <2>4. after[0] = Step(after[0 - 1], 0)
    BY <1>3, <2>3
  <2> QED
    BY <1>2, <1>3, <2>4
<1>4. ASSUME last = 1 PROVE after[last] = StoreAdd(documents, operation.documents[1], method)
  <2> DEFINE w == [i \in 0 .. 1 |-> IF i = 0 THEN documents ELSE Step(documents, 1)]
  <2>1. w = [i \in 0 .. 1 |-> Step(w[i - 1], i)]
    <3>1. ASSUME NEW i \in 0 .. 1 PROVE w[i] = Step(w[i - 1], i)
      <4>1. CASE i = 0
        BY <1>2, <4>1
      <4>2. CASE i = 1
        <5>1. w[1] = Step(documents, 1) /\ w[0] = documents /\ i - 1 = 0
          BY <4>2
        <5> QED
          BY <4>2, <5>1
      <4> QED
        BY <4>1, <4>2
    <3> QED
      BY <3>1
  <2> HIDE DEF w
  <2>2. \E g : g = [i \in 0 .. last |-> Step(g[i - 1], i)]
    BY <1>4, <2>1
  <2>3. after = [i \in 0 .. last |-> Step(after[i - 1], i)]
    BY <2>2, Zenon
  <2> HIDE DEF after
  <2>4. after[0] = Step(after[0 - 1], 0) /\ after[1] = Step(after[1 - 1], 1) /\ 1 - 1 = 0
    BY <1>4, <2>3
  <2>5. after[0] = documents
    BY <1>2, <2>4
  <2>6. after[1] = Step(documents, 1)
    BY <2>4, <2>5
  <2> QED
    BY <1>2, <1>4, <2>6
<1> QED
  BY <1>1, <1>3, <1>4 DEF Applied

\* Transform reads one operation of a batch.
Read(ix, t, operation) ==
  IF operation.type = "addition" THEN read_documents(ix, t, operation.documents)
  ELSE remove_documents(ix, t, operation.ids)

HasDocument(operation) == operation.type = "addition" /\ operation.documents # <<>>

\* The step from t to u does what the operation asks for, or fails.
Applies(ix, t, u, method, operation) ==
  /\ IsTransform(u)
  /\ \/ u.failed
     \/ /\ ~t.failed /\ u.added \in {t.added, t.added + 1}
        /\ HasDocument(operation) => u.added = t.added + 1
        /\ Reads(ix, u, method)
        /\ \A documents : Holds(ix, t, method, documents) =>
             Holds(ix, u, method, StoreApply(documents, operation, method))

\* The operations of a batch: an addition of none or of one document, or a deletion.
LEMMA OperationFacts ==
  ASSUME NEW operation \in Operations
  PROVE  \/ operation.type = "addition" /\ operation.documents = <<>> /\ Len(operation.documents) = 0
         \/ /\ operation.type = "addition" /\ Len(operation.documents) = 1
            /\ operation.documents[1] \in Documents
         \/ operation.type # "addition"
<1>1. operation.type # "addition" \/ operation.documents \in {<<>>} \cup {<<d>> : d \in Documents}
  BY DEF Operations
<1>2. ASSUME NEW d \in Documents, operation.documents = <<d>>
      PROVE  Len(operation.documents) = 1 /\ operation.documents[1] = d
  BY <1>2
<1>3. operation.documents = <<>> => Len(operation.documents) = 0
  OBVIOUS
<1> QED
  BY <1>1, <1>2, <1>3

\* Transform reads one operation of a batch as the promise applies it.
LEMMA ReadReads ==
  ASSUME NEW ix, Good(ix), NEW t, IsTransform(t), NEW method \in Methods,
         NEW operation \in Operations, t.failed \/ Reads(ix, t, method)
  PROVE  Applies(ix, t, Read(ix, t, operation), method, operation)
<1> DEFINE documents == operation.documents
           names == InsertFields(t.names, FieldOrder, FieldsOf(documents))
           named == [t EXCEPT !.names = InsertFields(@, FieldOrder, FieldsOf(documents))]
           u == Read(ix, t, operation)
<1> SUFFICES Applies(ix, t, u, method, operation)
  OBVIOUS
<1>1. /\ named.names = names /\ named.available = t.available /\ named.replaced = t.replaced
      /\ named.builder = t.builder /\ named.new_ids = t.new_ids /\ named.sorter = t.sorter
      /\ named.failed = t.failed /\ named.added = t.added /\ IsTransform(named)
  <2> HIDE DEF documents
  <2> QED
    BY DEF IsTransform
<1>2. /\ Len(documents) = 0 => read_documents(ix, t, documents) = named
      /\ Len(documents) = 1 =>
           read_documents(ix, t, documents) = ReadDocument(ix, named, documents[1])
  <2> HIDE DEF documents
  <2> QED
    BY ReadDocumentsFacts
<1> HIDE DEF named
<1>3. ASSUME ~t.failed
      PROVE  /\ Reads(ix, named, method)
             /\ Range(FieldOrder) \cap FieldsOf(documents) \subseteq Range(named.names)
             /\ \A stored : Holds(ix, t, method, stored) => Holds(ix, named, method, stored)
  <2>1. Reads(ix, t, method) /\ Distinct(t.names) /\ Distinct(ix.fields_ids_map)
    BY <1>3 DEF Reads, Good, Stores
  <2>2. FieldOrder \in Seq(FieldNames)
    BY ContentsAssumption DEF FieldNames
  <2>3. /\ Distinct(names) /\ Extends(names, t.names)
        /\ Range(t.names) \cup (Range(FieldOrder) \cap FieldsOf(documents)) \subseteq Range(names)
    <3> DEFINE given == t.names
               wanted == FieldsOf(documents)
    <3> HIDE DEF given, wanted
    <3>1. LET r == InsertFields(given, FieldOrder, wanted)
          IN /\ Distinct(r) /\ Extends(r, given)
             /\ Range(given) \cup (Range(FieldOrder) \cap wanted) \subseteq Range(r)
      <4>1. Distinct(given)
        BY <2>1 DEF given
      <4> QED
        BY <2>2, <4>1, InsertFieldsFacts
    <3> QED
      BY <3>1, Zenon DEF given, wanted
  <2> HIDE DEF names, documents
  <2>4. /\ Reads(ix, named, method)
        /\ \A stored : Holds(ix, t, method, stored) => Holds(ix, named, method, stored)
    BY <1>1, <2>1, <2>3, NamedReads
  <2> QED
    BY <1>1, <2>3, <2>4
<1>4. CASE operation.type # "addition"
  <2>1. u = remove_documents(ix, t, operation.ids)
    BY <1>4 DEF Read
  <2> HIDE DEF u
  <2>2. Removes(ix, t, u, method, operation.ids)
    BY <2>1, RemoveReads
  <2>3. \A stored : StoreApply(stored, operation, method)
                      = Restrict(stored, DOMAIN stored \ operation.ids)
    BY <1>4, StoreApplyFacts DEF Applied
  <2>4. ~HasDocument(operation)
    BY <1>4 DEF HasDocument
  <2>5. CASE u.failed
    BY <2>2, <2>5, Zenon DEF Removes, Applies
  <2>6. CASE ~u.failed
    <3>1. /\ IsTransform(u) /\ ~t.failed /\ u.added = t.added /\ Reads(ix, u, method)
          /\ \A stored : Holds(ix, t, method, stored) =>
               Holds(ix, u, method, Restrict(stored, DOMAIN stored \ operation.ids))
      BY <2>2, <2>6, Zenon DEF Removes
    <3>2. u.added \in {t.added, t.added + 1}
      BY <3>1
    <3> QED
      BY <2>3, <2>4, <3>1, <3>2, Zenon DEF Applies
  <2> QED
    BY <2>5, <2>6
<1>5. CASE operation.type = "addition" /\ documents = <<>> /\ Len(documents) = 0
  <2>1. u = named
    BY <1>2, <1>5 DEF Read
  <2>2. \A stored : StoreApply(stored, operation, method) = stored
    BY <1>5, StoreApplyFacts DEF Applied
  <2>3. ~HasDocument(operation)
    BY <1>5 DEF HasDocument
  <2> HIDE DEF u
  <2>4. IsTransform(u) /\ u.failed = t.failed /\ u.added = t.added
    BY <1>1, <2>1
  <2>5. CASE t.failed
    <3>1. u.failed
      BY <2>4, <2>5
    <3> QED
      BY <2>4, <3>1, Zenon DEF Applies
  <2>6. CASE ~t.failed
    <3>1. /\ Reads(ix, u, method)
          /\ \A stored : Holds(ix, t, method, stored) => Holds(ix, u, method, stored)
      BY <1>3, <2>1, <2>6, Zenon
    <3>2. u.added \in {t.added, t.added + 1}
      BY <2>4
    <3> QED
      BY <2>2, <2>3, <2>4, <2>6, <3>1, <3>2, Zenon DEF Applies
  <2> QED
    BY <2>5, <2>6
<1>6. CASE operation.type = "addition" /\ Len(documents) = 1 /\ documents[1] \in Documents
  <2> DEFINE document == documents[1]
  <2>1. u = ReadDocument(ix, named, document)
    BY <1>2, <1>6 DEF Read
  <2>2. \A stored : StoreApply(stored, operation, method) = StoreAdd(stored, document, method)
    <3> TAKE stored
    <3>1. operation.type = "addition" /\ Len(operation.documents) = 1
      BY <1>6
    <3>2. Applied(StoreApply(stored, operation, method), stored, operation, method)
      BY StoreApplyFacts
    <3> QED
      BY <3>1, <3>2 DEF Applied
  <2>3. named.failed \/ DOMAIN document.content \subseteq Range(named.names)
    <3>1. DOMAIN document.content \subseteq Range(FieldOrder)
      BY <1>6, ContentsAssumption DEF Documents
    <3>2. DOMAIN document.content \subseteq FieldsOf(documents)
      BY <1>6 DEF FieldsOf
    <3> QED
      BY <1>1, <1>3, <3>1, <3>2
  <2> HIDE DEF u, documents
  <2>4. CASE named.failed
    <3>1. u = [named EXCEPT !.failed = TRUE]
      BY <2>1, <2>4 DEF ReadDocument
    <3>2. IsTransform(u) /\ u.failed = TRUE
      BY <1>1, <3>1 DEF IsTransform
    <3> QED
      BY <3>2, Zenon DEF Applies
  <2>5. CASE ~named.failed
    <3>1. ~t.failed
      BY <1>1, <2>5
    <3>2. AddsOne(ix, named, u, method, document)
      <4>1. /\ IsTransform(named) /\ document \in Documents
            /\ DOMAIN document.content \subseteq Range(named.names) /\ Reads(ix, named, method)
        BY <1>1, <1>3, <1>6, <2>3, <2>5, <3>1
      <4> HIDE DEF document
      <4> QED
        BY <2>1, <4>1, ReadDocumentReads
    <3>3. CASE u.failed
      BY <3>2, <3>3, Zenon DEF AddsOne, Applies
    <3>4. CASE ~u.failed
      <4>1. /\ IsTransform(u) /\ u.added = named.added + 1 /\ Reads(ix, u, method)
            /\ \A stored : Holds(ix, named, method, stored) =>
                 Holds(ix, u, method, StoreAdd(stored, document, method))
        BY <3>2, <3>4, Zenon DEF AddsOne
      <4>2. u.added = t.added + 1 /\ u.added \in {t.added, t.added + 1}
        BY <1>1, <4>1
      <4>3. ASSUME NEW stored, Holds(ix, t, method, stored)
            PROVE  Holds(ix, u, method, StoreApply(stored, operation, method))
        BY <1>3, <2>2, <3>1, <4>1, <4>3, Zenon
      <4> QED
        BY <3>1, <4>1, <4>2, <4>3, Zenon DEF Applies
    <3> QED
      BY <3>3, <3>4
  <2> QED
    BY <2>4, <2>5
<1>7. \/ operation.type = "addition" /\ documents = <<>> /\ Len(documents) = 0
      \/ operation.type = "addition" /\ Len(documents) = 1 /\ documents[1] \in Documents
      \/ operation.type # "addition"
  BY OperationFacts
<1> QED
  BY <1>4, <1>5, <1>6, <1>7

-----------------------------------------------------------------------------
(* A batch.                                                                  *)

\* The documents are those that the identifiers of the index lead to.
View(ix, documents) ==
  /\ IsFunction(documents)
  /\ \A id : id \in DOMAIN documents <=> \E d : Leads(ix, id, d)
  /\ \A id, d : Leads(ix, id, d) => documents[id] = Decode(ix.fields_ids_map, ix.documents[d])

\* A new Transform has read nothing yet.
LEMMA NewReads ==
  ASSUME NEW ix, Good(ix), NEW method
  PROVE  LET t == NewTransform(ix) IN
         /\ IsTransform(t) /\ t.added = 0 /\ t.failed = FALSE /\ Reads(ix, t, method)
         /\ \A documents : View(ix, documents) => Holds(ix, t, method, documents)
<1> DEFINE t == NewTransform(ix)
<1>1. /\ IsTransform(t) /\ t.added = 0 /\ t.failed = FALSE
      /\ t.names = ix.fields_ids_map /\ t.available = AvailableIds(ix) /\ t.replaced = {}
      /\ t.new_ids = {} /\ t.builder = <<>> /\ t.sorter = <<>>
  BY DEF NewTransform, IsTransform
<1> HIDE DEF t
<1>2. /\ IsFunction(t.builder) /\ DOMAIN t.builder = {}
      /\ IsFunction(t.sorter) /\ DOMAIN t.sorter = {}
  BY <1>1, NothingFacts
<1>3. Distinct(ix.fields_ids_map)
  BY DEF Good, Stores
<1>4. Extends(ix.fields_ids_map, ix.fields_ids_map)
  BY <1>3, ExtendsFacts
<1>5. Reads(ix, t, method)
  BY <1>1, <1>2, <1>3, <1>4 DEF Reads
<1>6. \A documents : View(ix, documents) => Holds(ix, t, method, documents)
  BY <1>1, <1>2 DEF View, Holds
<1> QED
  BY <1>1, <1>5, <1>6 DEF t

\* The states that a batch goes through, one for each operation, and what the last one leaves.
Course(after, batch, method, small) ==
  /\ after[0] = [t |-> NewTransform(index), store |-> store]
  /\ \A n \in 1 .. Len(batch) :
       after[n] = [t |-> Read(index, after[n - 1].t, batch[n]),
                   store |-> StoreApply(after[n - 1].store, batch[n], method)]
  /\ index' = Executed(index, after[Len(batch)].t, method, small)
  /\ store' = IF after[Len(batch)].t.failed THEN store ELSE after[Len(batch)].store

\* IndexDocuments reads the operations of its batch in turn.
LEMMA BatchRecursion ==
  ASSUME NEW batch, Len(batch) \in Nat, NEW method, NEW small, IndexDocuments(batch, method, small)
  PROVE  \E after : Course(after, batch, method, small)
<1> DEFINE first == [t |-> NewTransform(index), store |-> store]
           Step(before, n) ==
             IF n = 0 THEN [t |-> NewTransform(index), store |-> store]
             ELSE [t |-> IF batch[n].type = "addition"
                         THEN read_documents(index, before.t, batch[n].documents)
                         ELSE remove_documents(index, before.t, batch[n].ids),
                   store |-> StoreApply(before.store, batch[n], method)]
           last == Len(batch)
           Given == {n \in 0 .. last : \E g : g = [k \in 0 .. n |-> Step(g[k - 1], k)]}
           after == CHOOSE g : g = [n \in 0 .. last |-> Step(g[n - 1], n)]
<1>1. /\ index' = Executed(index, after[last].t, method, small)
      /\ store' = IF after[last].t.failed THEN store ELSE after[last].store
  BY Zenon DEF IndexDocuments
<1>2. \A x : Step(x, 0) = first
  OBVIOUS
<1>3. \A x : \A n \in 1 .. last :
        Step(x, n) = [t |-> Read(index, x.t, batch[n]),
                      store |-> StoreApply(x.store, batch[n], method)]
  <2> TAKE x
  <2> TAKE n \in 1 .. last
  <2>1. n # 0
    OBVIOUS
  <2> QED
    BY <2>1, Zenon DEF Read
<1> HIDE DEF Step, first
<1>4. last \in Given
  <2>1. 0 \in Given
    <3> DEFINE g == [k \in 0 .. 0 |-> first]
    <3>1. g = [k \in 0 .. 0 |-> Step(g[k - 1], k)]
      BY <1>2
    <3> HIDE DEF g
    <3> QED
      BY <3>1
  <2>2. ASSUME NEW n \in 0 .. last - 1, n \in Given PROVE n + 1 \in Given
    <3>1. PICK g : g = [k \in 0 .. n |-> Step(g[k - 1], k)]
      BY <2>2
    <3> DEFINE h == [k \in 0 .. n + 1 |-> IF k = n + 1 THEN Step(g[n], n + 1) ELSE g[k]]
    <3>2. \A k \in 0 .. n + 1 : h[k] = Step(h[k - 1], k)
      <4> TAKE k \in 0 .. n + 1
      <4>1. CASE k = n + 1
        <5>1. h[k] = Step(g[n], n + 1) /\ h[n] = g[n] /\ k - 1 = n
          BY <4>1
        <5> QED
          BY <4>1, <5>1
      <4>2. CASE k \in 1 .. n
        <5>1. h[k] = g[k] /\ h[k - 1] = g[k - 1]
          BY <4>2
        <5>2. g[k] = Step(g[k - 1], k)
          BY <3>1, <4>2
        <5> QED
          BY <5>1, <5>2
      <4>3. CASE k = 0
        <5>1. h[0] = g[0]
          OBVIOUS
        <5>2. g[0] = Step(g[0 - 1], 0)
          BY <3>1
        <5> QED
          BY <1>2, <4>3, <5>1, <5>2
      <4> QED
        BY <4>1, <4>2, <4>3
    <3>3. h = [k \in 0 .. n + 1 |-> Step(h[k - 1], k)]
      BY <3>2
    <3>4. n + 1 \in 0 .. last
      OBVIOUS
    <3> HIDE DEF h
    <3> QED
      BY <3>3, <3>4
  <2> HIDE DEF Given
  <2>3. \A k \in 0 .. last : k \in Given
    BY <2>1, <2>2, UpTo
  <2> QED
    BY <2>3
<1>5. \E g : g = [n \in 0 .. last |-> Step(g[n - 1], n)]
  BY <1>4
<1>6. after = [n \in 0 .. last |-> Step(after[n - 1], n)]
  BY <1>5, Zenon
<1> HIDE DEF after
<1>7. \A n \in 0 .. last : after[n] = Step(after[n - 1], n)
  BY <1>6, Zenon
<1>8. after[0] = first
  <2>1. 0 \in 0 .. last
    OBVIOUS
  <2> QED
    BY <1>2, <1>7, <2>1
<1>9. \A n \in 1 .. last : after[n] = [t |-> Read(index, after[n - 1].t, batch[n]),
                                       store |-> StoreApply(after[n - 1].store, batch[n], method)]
  <2> TAKE n \in 1 .. last
  <2>1. n \in 0 .. last
    OBVIOUS
  <2>2. after[n] = Step(after[n - 1], n)
    BY <1>7, <2>1
  <2> QED
    BY <1>3, <2>2
<1> QED
  BY <1>1, <1>8, <1>9, Zenon DEF first, Course

\* The promise keeps documents under the user's identifiers.
IsStore(documents) == IsFunction(documents) /\ DOMAIN documents \subseteq ExternalIds

\* So it does whatever the operation.
LEMMA StoreApplyIsStore ==
  ASSUME NEW documents, IsStore(documents), NEW operation \in Operations, NEW method
  PROVE  IsStore(StoreApply(documents, operation, method))
<1> DEFINE r == StoreApply(documents, operation, method)
<1>1. Applied(r, documents, operation, method)
  BY StoreApplyFacts
<1> SUFFICES IsStore(r)
  OBVIOUS
<1> HIDE DEF r
<1>2. CASE operation.type # "addition"
  <2>1. r = Restrict(documents, DOMAIN documents \ operation.ids)
    BY <1>1, <1>2, Zenon DEF Applied
  <2>2. IsFunction(r) /\ DOMAIN r = DOMAIN documents \ operation.ids
    BY <2>1, RestrictFacts
  <2> QED
    BY <2>2 DEF IsStore
<1>3. CASE operation.type = "addition" /\ Len(operation.documents) = 0
  <2>1. r = documents
    BY <1>1, <1>3, Zenon DEF Applied
  <2> QED
    BY <2>1
<1>4. CASE /\ operation.type = "addition" /\ Len(operation.documents) = 1
           /\ operation.documents[1] \in Documents
  <2> DEFINE document == operation.documents[1]
             value == IF method = "UpdateDocuments" /\ document.id \in DOMAIN documents
                      THEN Over(document.content, documents[document.id]) ELSE document.content
  <2>1. r = StoreAdd(documents, document, method)
    BY <1>1, <1>4, Zenon DEF Applied
  <2>2. document.id \in ExternalIds
    BY <1>4 DEF Documents
  <2>3. IsFunction(documents)
    BY DEF IsStore
  <2> HIDE DEF document
  <2>4. Puts(r, document.id, value, documents)
    BY <2>1, <2>3, StoreAddFacts
  <2> HIDE DEF value
  <2> QED
    BY <2>2, <2>4 DEF Puts, IsStore
<1> QED
  BY <1>2, <1>3, <1>4, OperationFacts

\* What a batch has come to when its operations up to the n-th are read.
ReadSoFar(n, t, documents, batch, method) ==
  /\ IsTransform(t)
  /\ IsStore(store) => IsStore(documents)
  /\ \/ t.failed
     \/ /\ Reads(index, t, method) /\ t.added \in Nat
        /\ \A k \in 1 .. n : HasDocument(batch[k]) => t.added # 0
        /\ View(index, store) => Holds(index, t, method, documents)

\* When the last operation is read Transform has made of the documents what the promise asks for.
LEMMA BatchReads ==
  ASSUME Good(index), NEW batch \in Seq(Operations), NEW method \in Methods, NEW small,
         IndexDocuments(batch, method, small)
  PROVE  \E t, documents :
           /\ ReadSoFar(Len(batch), t, documents, batch, method)
           /\ index' = Executed(index, t, method, small)
           /\ store' = IF t.failed THEN store ELSE documents
<1> DEFINE last == Len(batch)
<1>1. last \in Nat /\ \A n \in 1 .. last : batch[n] \in Operations
  OBVIOUS
<1>0. PICK after : Course(after, batch, method, small)
  BY <1>1, BatchRecursion
<1>2. /\ after[0] = [t |-> NewTransform(index), store |-> store]
      /\ \A n \in 1 .. last :
           after[n] = [t |-> Read(index, after[n - 1].t, batch[n]),
                       store |-> StoreApply(after[n - 1].store, batch[n], method)]
      /\ index' = Executed(index, after[last].t, method, small)
      /\ store' = IF after[last].t.failed THEN store ELSE after[last].store
  BY <1>0, Zenon DEF Course
<1> DEFINE So == {n \in 0 .. last : ReadSoFar(n, after[n].t, after[n].store, batch, method)}
<1>3. 0 \in So
  <2>1. after[0].t = NewTransform(index) /\ after[0].store = store
    BY <1>2
  <2>2. /\ IsTransform(after[0].t) /\ after[0].t.added = 0 /\ Reads(index, after[0].t, method)
        /\ View(index, store) => Holds(index, after[0].t, method, after[0].store)
    BY <2>1, NewReads, Zenon
  <2>3. after[0].t.added \in Nat /\ 1 .. 0 = {} /\ 0 \in 0 .. last
    BY <1>1, <2>2
  <2>4. \A k \in 1 .. 0 : HasDocument(batch[k]) => after[0].t.added # 0
    BY <2>3
  <2>5. ReadSoFar(0, after[0].t, after[0].store, batch, method)
    BY <2>1, <2>2, <2>3, <2>4, Zenon DEF ReadSoFar
  <2> QED
    BY <2>3, <2>5
<1>4. ASSUME NEW n \in 0 .. last - 1, n \in So PROVE n + 1 \in So
  <2> DEFINE t == after[n].t
             u == after[n + 1].t
             old == after[n].store
             new == after[n + 1].store
             operation == batch[n + 1]
  <2>1. n + 1 \in 1 .. last /\ n + 1 \in 0 .. last /\ n + 1 - 1 = n
    BY <1>1
  <2>2. operation \in Operations
    BY <1>1, <2>1
  <2>3. after[n + 1] = [t |-> Read(index, after[n + 1 - 1].t, batch[n + 1]),
                        store |-> StoreApply(after[n + 1 - 1].store, batch[n + 1], method)]
    BY <1>2, <2>1
  <2>4. u = Read(index, t, operation) /\ new = StoreApply(old, operation, method)
    BY <2>1, <2>3
  <2>5. ReadSoFar(n, t, old, batch, method)
    BY <1>4
  <2>6. IsTransform(t) /\ (t.failed \/ Reads(index, t, method))
    BY <2>5, Zenon DEF ReadSoFar
  <2> HIDE DEF t, u, old, new, operation
  <2>7. Applies(index, t, u, method, operation)
    BY <2>2, <2>4, <2>6, ReadReads
  <2>8. ReadSoFar(n + 1, u, new, batch, method)
    <3>1. IsTransform(u)
      BY <2>7 DEF Applies
    <3>0. IsStore(store) => IsStore(new)
      BY <2>2, <2>4, <2>5, StoreApplyIsStore, Zenon DEF ReadSoFar
    <3>2. CASE u.failed
      BY <3>0, <3>1, <3>2, Zenon DEF ReadSoFar
    <3>3. CASE ~u.failed
      <4>1. /\ ~t.failed /\ u.added \in {t.added, t.added + 1}
            /\ HasDocument(operation) => u.added = t.added + 1
            /\ Reads(index, u, method)
            /\ \A documents : Holds(index, t, method, documents) =>
                 Holds(index, u, method, StoreApply(documents, operation, method))
        BY <2>7, <3>3, Zenon DEF Applies
      <4>2. /\ t.added \in Nat
            /\ \A k \in 1 .. n : HasDocument(batch[k]) => t.added # 0
            /\ View(index, store) => Holds(index, t, method, old)
        BY <2>5, <4>1, Zenon DEF ReadSoFar
      <4>3. u.added \in Nat /\ (t.added # 0 => u.added # 0)
        BY <4>1, <4>2
      <4>4. ASSUME NEW k \in 1 .. n + 1, HasDocument(batch[k])
            PROVE  u.added # 0
        <5>1. CASE k = n + 1
          BY <4>1, <4>2, <4>4, <5>1 DEF operation
        <5>2. CASE k \in 1 .. n
          BY <4>2, <4>3, <4>4, <5>2
        <5> QED
          BY <4>4, <5>1, <5>2
      <4>5. View(index, store) => Holds(index, u, method, new)
        BY <2>4, <4>1, <4>2, Zenon
      <4> QED
        BY <3>0, <3>1, <4>1, <4>3, <4>4, <4>5, Zenon DEF ReadSoFar
    <3> QED
      BY <3>2, <3>3
  <2> QED
    BY <2>1, <2>8 DEF u, new
<1> HIDE DEF So
<1>5. \A n \in 0 .. last : n \in So
  BY <1>1, <1>3, <1>4, UpTo
<1>6. ReadSoFar(last, after[last].t, after[last].store, batch, method)
  <2>1. last \in 0 .. last
    BY <1>1
  <2> QED
    BY <1>5, <2>1 DEF So
<1> QED
  BY <1>2, <1>6, Zenon

\* The distribution that Transform gives: without the replaced documents, with the new ones.
LEMMA OutputCounts ==
  ASSUME NEW ix, Good(ix), NEW names, Distinct(names), Extends(names, ix.fields_ids_map),
         NEW gone \in SUBSET ix.documents_ids, NEW documents, DOMAIN documents \subseteq 0 .. MaxDocId,
         DOMAIN documents \cap DOMAIN ix.documents = {},
         \A d \in DOMAIN documents : Encoded(documents[d], names)
  PROVE  Counts(Distribution([f \in Range(names) |->
                   Count(ix.distribution, f) - CountedIn(ix.documents, gone, ix.fields_ids_map, f)
                     + CountedIn(documents, DOMAIN documents, names, f)]),
                Over(documents, ix.documents), (ix.documents_ids \ gone) \cup DOMAIN documents, names)
<1> DEFINE known == ix.fields_ids_map
           live == ix.documents_ids
           left == live \ gone
           new == DOMAIN documents
           old == ix.documents
           all == Over(documents, old)
           count == [f \in Range(names) |-> Count(ix.distribution, f) - CountedIn(old, gone, known, f)
                                              + CountedIn(documents, new, names, f)]
<1>1. /\ Distinct(known) /\ \A d \in DOMAIN old : Encoded(old[d], known)
      /\ live \subseteq DOMAIN old /\ DOMAIN old \subseteq 0 .. MaxDocId
      /\ Counts(ix.distribution, old, live, known)
  BY DEF Good, Stores
<1>2. /\ \A d \in new : all[d] = documents[d]
      /\ \A d \in DOMAIN old : all[d] = old[d]
  <2>1. /\ \A d \in DOMAIN documents : all[d] = documents[d]
        /\ \A d \in DOMAIN old \ DOMAIN documents : all[d] = old[d]
    <3> HIDE DEF old
    <3> QED
      BY DEF Over
  <2>2. \A d \in DOMAIN old : d \notin DOMAIN documents
    OBVIOUS
  <2> HIDE DEF all, old
  <2> QED
    BY <2>1, <2>2
<1>3. live \in SUBSET (0 .. MaxDocId) /\ left \in SUBSET (0 .. MaxDocId)
      /\ new \in SUBSET (0 .. MaxDocId) /\ left \cap new = {} /\ left \cup new \in SUBSET (0 .. MaxDocId)
  BY <1>1
<1>4. \A d \in left \cup new : Encoded(all[d], names)
  <2>1. ASSUME NEW d \in left PROVE Encoded(all[d], names)
    <3>1. d \in DOMAIN old
      BY <1>1
    <3>2. Encoded(old[d], names)
      BY <1>1, <3>1, DecodeExtended
    <3> HIDE DEF all, old
    <3> QED
      BY <1>2, <3>1, <3>2
  <2>2. ASSUME NEW d \in new PROVE Encoded(all[d], names)
    BY <1>2, <2>2
  <2> QED
    BY <2>1, <2>2
<1>5. ASSUME NEW f
      PROVE  CountedIn(all, left \cup new, names, f)
               = Count(ix.distribution, f) - CountedIn(old, gone, known, f)
                   + CountedIn(documents, new, names, f)
  <2>1. Count(ix.distribution, f) = CountedIn(old, live, known, f)
    <3>1. \A d \in live : Encoded(old[d], known)
      BY <1>1
    <3> HIDE DEF old, live, known
    <3> QED
      BY <1>1, <1>3, <3>1, CountOf
  <2>2. CountedIn(old, left, known, f) = CountedIn(old, live, known, f) - CountedIn(old, gone, known, f)
    <3>1. gone \in SUBSET live
      OBVIOUS
    <3> HIDE DEF old, live, known
    <3> QED
      BY <1>3, <3>1, CountDifference
  <2>3. CountedIn(all, left, names, f) = CountedIn(old, left, known, f)
    <3>1. ASSUME NEW d \in left
          PROVE  HasField(all, names, f, d) <=> HasField(old, known, f, d)
      <4>1. d \in DOMAIN old /\ all[d] = old[d] /\ Encoded(old[d], known) /\ Len(known) \in Nat
        BY <1>1, <1>2 DEF Distinct
      <4>2. \A fid \in DOMAIN old[d] : names[fid] = known[fid]
        BY <4>1 DEF Encoded, Extends
      <4> HIDE DEF all, old, known
      <4> QED
        BY <4>1, <4>2 DEF HasField
    <3> HIDE DEF all, old, known, left
    <3> QED
      BY <3>1, CountSame
  <2>4. CountedIn(all, new, names, f) = CountedIn(documents, new, names, f)
    <3>1. \A d \in new : HasField(all, names, f, d) <=> HasField(documents, names, f, d)
      BY <1>2 DEF HasField
    <3> HIDE DEF all, new
    <3> QED
      BY <3>1, CountSame
  <2>5. CountedIn(all, left \cup new, names, f)
          = CountedIn(all, left, names, f) + CountedIn(all, new, names, f)
    <3> HIDE DEF all, left, new
    <3> QED
      BY <1>3, CountUnion
  <2>6. /\ CountedIn(old, left, known, f) \in Nat /\ CountedIn(old, live, known, f) \in Nat
        /\ CountedIn(documents, new, names, f) \in Nat
    <3> HIDE DEF left, live, new, old, known
    <3> QED
      BY <1>3, CountFacts
  <2>7. CountedIn(old, gone, known, f) \in Nat
    <3>1. gone \in SUBSET (0 .. MaxDocId)
      BY <1>3
    <3> HIDE DEF old, known
    <3> QED
      BY <3>1, CountFacts
  <2> HIDE DEF left, live, new, old, known, all
  <2> QED
    BY <2>1, <2>2, <2>3, <2>4, <2>5, <2>6, <2>7
<1>6. IsFunction(count) /\ DOMAIN count = Range(names)
  <2> HIDE DEF left, live, new, old, known, all
  <2> QED
    BY DEF IsFunction
<1>7. \A f \in DOMAIN count : count[f] = CountedIn(all, left \cup new, names, f)
  <2>1. \A f \in Range(names) :
          count[f] = Count(ix.distribution, f) - CountedIn(old, gone, known, f)
                       + CountedIn(documents, new, names, f)
    <3> HIDE DEF left, live, new, old, known, all
    <3> QED
      OBVIOUS
  <2> HIDE DEF left, live, new, old, known, all, count
  <2> QED
    BY <1>5, <1>6, <2>1
<1> DEFINE docids == left \cup new
<1>8. ASSUME NEW f, CountedIn(all, docids, names, f) > 0 PROVE f \in DOMAIN count
  <2> HIDE DEF all, count, docids
  <2>1. docids \in SUBSET (0 .. MaxDocId) /\ \A d \in docids : Encoded(all[d], names)
    BY <1>3, <1>4 DEF docids
  <2>2. f \notin Range(names) => CountedIn(all, docids, names, f) = 0
    BY <2>1, CountOutside
  <2>3. f \in Range(names)
    BY <1>8, <2>2
  <2> QED
    BY <1>6, <2>3
<1>9. Counts(Distribution(count), all, docids, names)
  <2>1. docids \in SUBSET (0 .. MaxDocId) /\ \A d \in docids : Encoded(all[d], names)
    BY <1>3, <1>4
  <2>2. \A f \in DOMAIN count : count[f] = CountedIn(all, docids, names, f)
    BY <1>7
  <2> HIDE DEF all, count, docids
  <2> QED
    BY <1>6, <1>8, <2>1, <2>2, CountsExactly
<1> QED
  BY <1>9

\* What output_from_sorter gives can be written into the index.
LEMMA OutputBatch ==
  ASSUME NEW ix, Good(ix), NEW t, NEW method, Reads(ix, t, method)
  PROVE  LET output == output_from_sorter(ix, t, method)
             mapped == [ix EXCEPT !.fields_ids_map = output.fields_ids_map]
         IN /\ output.fields_ids_map = t.names /\ output.new_ids = t.new_ids
            /\ output.replaced = t.replaced /\ output.external_ids = t.builder
            /\ \A d \in t.new_ids : output.documents[d] = Merge(method, t.sorter[d]).obkv
            /\ Good(mapped) /\ Batch(mapped, output)
<1> DEFINE merged == [d \in DOMAIN t.sorter |-> Merge(method, t.sorter[d])]
           kept   == {d \in DOMAIN merged : ~merged[d].deletion}
           documents == [d \in kept |-> merged[d].obkv]
           distribution == Distribution([f \in Range(t.names) |->
             Count(ix.distribution, f) - CountedIn(ix.documents, t.replaced, ix.fields_ids_map, f)
               + CountedIn(documents, kept, t.names, f)])
           output == output_from_sorter(ix, t, method)
           mapped == [ix EXCEPT !.fields_ids_map = output.fields_ids_map]
<1>1. /\ output.fields_ids_map = t.names /\ output.new_ids = t.new_ids
      /\ output.replaced = t.replaced /\ output.external_ids = t.builder
      /\ output.documents = documents /\ output.distribution = distribution
  BY DEF output_from_sorter
<1> HIDE DEF output
<1>2. /\ \A d \in DOMAIN t.sorter \ t.new_ids : Merge(method, t.sorter[d]).deletion
      /\ \A d \in t.new_ids : /\ d \in DOMAIN t.sorter /\ ~Merge(method, t.sorter[d]).deletion
                              /\ Encoded(Merge(method, t.sorter[d]).obkv, t.names)
  <2>1. ASSUME NEW d \in DOMAIN t.sorter \ t.new_ids PROVE Merge(method, t.sorter[d]).deletion
    <3>1. Merge(method, t.sorter[d]) = Deletion
      BY <2>1 DEF Reads
    <3> QED
      BY <3>1 DEF Deletion
  <2>2. ASSUME NEW d \in t.new_ids
        PROVE  /\ d \in DOMAIN t.sorter /\ ~Merge(method, t.sorter[d]).deletion
               /\ Encoded(Merge(method, t.sorter[d]).obkv, t.names)
    <3>1. PICK o : Merge(method, t.sorter[d]) = Addition(o) /\ Encoded(o, t.names)
      BY <2>2 DEF Reads
    <3>2. ~Merge(method, t.sorter[d]).deletion /\ Merge(method, t.sorter[d]).obkv = o
      BY <3>1 DEF Addition
    <3> QED
      BY <2>2, <3>1, <3>2 DEF Reads
  <2> QED
    BY <2>1, <2>2
<1>3. kept = t.new_ids
  <2>1. \A d : d \in kept <=> d \in DOMAIN t.sorter /\ ~Merge(method, t.sorter[d]).deletion
    OBVIOUS
  <2> HIDE DEF kept
  <2> QED
    BY <1>2, <2>1
<1>4. /\ IsFunction(documents) /\ DOMAIN documents = t.new_ids
      /\ \A d \in t.new_ids : documents[d] = Merge(method, t.sorter[d]).obkv
  <2>1. /\ IsFunction(documents) /\ DOMAIN documents = kept
        /\ \A d \in kept : documents[d] = merged[d].obkv
    <3> HIDE DEF kept, merged
    <3> QED
      BY DEF IsFunction
  <2>2. \A d \in kept : merged[d] = Merge(method, t.sorter[d])
    OBVIOUS
  <2> HIDE DEF documents, kept, merged
  <2> QED
    BY <1>3, <2>1, <2>2
<1>5. distribution = Distribution([f \in Range(t.names) |->
             Count(ix.distribution, f) - CountedIn(ix.documents, t.replaced, ix.fields_ids_map, f)
               + CountedIn(documents, DOMAIN documents, t.names, f)])
  <2>1. kept = DOMAIN documents
    BY <1>3, <1>4
  <2> HIDE DEF documents, kept
  <2> QED
    BY <2>1, Zenon
<1> HIDE DEF documents, distribution
<1>6. /\ Distinct(t.names) /\ Extends(t.names, ix.fields_ids_map)
      /\ t.replaced \in SUBSET ix.documents_ids
      /\ IsIndex(ix) /\ Stores(ix)
  BY DEF Reads, Good
<1>7. /\ DOMAIN documents \subseteq 0 .. MaxDocId
      /\ DOMAIN documents \cap DOMAIN ix.documents = {}
  <2>1. t.new_ids \subseteq AvailableIds(ix)
    BY DEF Reads
  <2> QED
    BY <1>4, <1>6, <2>1 DEF AvailableIds, Stores
<1>8. \A d \in DOMAIN documents : Encoded(documents[d], t.names)
  BY <1>2, <1>4
<1>9. /\ mapped.fields_ids_map = t.names
      /\ mapped.documents = ix.documents /\ mapped.documents_ids = ix.documents_ids
  BY <1>1, <1>6 DEF IsIndex
<1>10. Good(mapped) /\ \A id, d : Leads(mapped, id, d) <=> Leads(ix, id, d)
  BY <1>1, <1>6, ExtendedGood, Zenon
<1> HIDE DEF mapped
<1>11. Counts(distribution, Over(documents, ix.documents),
              (ix.documents_ids \ t.replaced) \cup DOMAIN documents, t.names)
  <2> DEFINE names == t.names
             gone == t.replaced
  <2>1. /\ Distinct(names) /\ Extends(names, ix.fields_ids_map) /\ gone \in SUBSET ix.documents_ids
        /\ \A d \in DOMAIN documents : Encoded(documents[d], names)
    BY <1>6, <1>8
  <2> HIDE DEF names, gone
  <2>2. Counts(Distribution([f \in Range(names) |->
                   Count(ix.distribution, f) - CountedIn(ix.documents, gone, ix.fields_ids_map, f)
                     + CountedIn(documents, DOMAIN documents, names, f)]),
                Over(documents, ix.documents), (ix.documents_ids \ gone) \cup DOMAIN documents, names)
    BY <1>7, <2>1, OutputCounts, Zenon
  <2> QED
    BY <1>5, <2>2, Zenon DEF names, gone
<1>12. Counts(output.distribution, Over(output.documents, mapped.documents),
              (mapped.documents_ids \ output.replaced) \cup output.new_ids, mapped.fields_ids_map)
  BY <1>1, <1>4, <1>9, <1>11, Zenon
<1>13. Batch(mapped, output)
  <2>1. /\ output.replaced \subseteq mapped.documents_ids
        /\ IsFunction(output.documents)
        /\ \A d \in DOMAIN output.documents : Encoded(output.documents[d], mapped.fields_ids_map)
        /\ DOMAIN output.documents \subseteq 0 .. MaxDocId
        /\ DOMAIN output.documents \cap DOMAIN mapped.documents = {}
        /\ output.new_ids = DOMAIN output.documents
    BY <1>1, <1>4, <1>6, <1>7, <1>8, <1>9
  <2>2. /\ IsFunction(output.external_ids) /\ DOMAIN output.external_ids \subseteq ExternalIds
        /\ \A id \in DOMAIN output.external_ids : output.external_ids[id] \in output.new_ids
        /\ \A d \in output.new_ids : \E id \in DOMAIN output.external_ids : output.external_ids[id] = d
        /\ \A x, y \in DOMAIN output.external_ids :
              output.external_ids[x] = output.external_ids[y] => x = y
        /\ \A id \in DOMAIN output.external_ids : \A d : Leads(mapped, id, d) => d \in output.replaced
    BY <1>1, <1>10 DEF Reads
  <2> QED
    BY <1>12, <2>1, <2>2 DEF Batch
<1> QED
  BY <1>1, <1>4, <1>10, <1>13, Zenon DEF mapped, output

\* A batch is executed: the index holds what the batch has made of its documents.
LEMMA ExecutedView ==
  ASSUME NEW ix, Good(ix), NEW t, NEW method, Reads(ix, t, method), NEW small
  PROVE  LET r == Raw(ix, output_from_sorter(ix, t, method), small) IN
         Good(r) /\ \A documents : Holds(ix, t, method, documents) => View(r, documents)
<1> DEFINE output == output_from_sorter(ix, t, method)
           mapped == [ix EXCEPT !.fields_ids_map = output.fields_ids_map]
           r == Raw(ix, output, small)
<1>1. /\ output.fields_ids_map = t.names /\ output.new_ids = t.new_ids
      /\ output.replaced = t.replaced /\ output.external_ids = t.builder
      /\ \A d \in t.new_ids : output.documents[d] = Merge(method, t.sorter[d]).obkv
      /\ Good(mapped) /\ Batch(mapped, output)
  BY OutputBatch
<1> HIDE DEF output
<1>2. IsIndex(ix) /\ Stores(ix) /\ Distinct(ix.fields_ids_map)
  BY DEF Good, Stores
<1>3. Good(r) /\ Becomes(r, mapped, output)
  BY <1>1, <1>2, RawGood
<1>4. /\ mapped.fields_ids_map = t.names
      /\ mapped.documents = ix.documents /\ mapped.documents_ids = ix.documents_ids
  BY <1>1, <1>2 DEF IsIndex
<1>5. Distinct(t.names) /\ Extends(t.names, ix.fields_ids_map)
  BY DEF Reads
<1>6. \A id, d : Leads(mapped, id, d) <=> Leads(ix, id, d)
  BY <1>1, <1>5, ExtendedGood, Zenon
<1> HIDE DEF r, mapped
<1>7. /\ r.fields_ids_map = t.names
      /\ \A d \in t.new_ids : r.documents[d] = Merge(method, t.sorter[d]).obkv
      /\ \A d \in ix.documents_ids \ t.replaced : r.documents[d] = ix.documents[d]
      /\ \A id, d : Leads(r, id, d) <=>
            \/ id \in DOMAIN t.builder /\ t.builder[id] = d
            \/ Leads(ix, id, d) /\ d \notin t.replaced
  BY <1>1, <1>3, <1>4, <1>6 DEF Becomes
<1>8. ASSUME NEW documents, Holds(ix, t, method, documents)
      PROVE  View(r, documents)
  <2>1. ASSUME NEW id PROVE id \in DOMAIN documents <=> \E d : Leads(r, id, d)
    <3>1. id \in DOMAIN documents <=>
            id \in DOMAIN t.builder \/ \E d : Leads(ix, id, d) /\ d \notin t.replaced
      BY <1>8 DEF Holds
    <3> QED
      BY <1>7, <3>1
  <2>2. ASSUME NEW id, NEW d, Leads(r, id, d)
        PROVE  documents[id] = Decode(r.fields_ids_map, r.documents[d])
    <3>1. CASE id \in DOMAIN t.builder /\ t.builder[id] = d
      <4>1. d \in t.new_ids
        BY <3>1 DEF Reads
      <4>2. documents[id] = Decode(t.names, Merge(method, t.sorter[d]).obkv)
        BY <1>8, <3>1 DEF Holds
      <4> QED
        BY <1>7, <4>1, <4>2
    <3>2. CASE Leads(ix, id, d) /\ d \notin t.replaced
      <4>1. documents[id] = Decode(ix.fields_ids_map, ix.documents[d])
        BY <1>8, <3>2 DEF Holds
      <4>2. d \in ix.documents_ids /\ Encoded(ix.documents[d], ix.fields_ids_map)
        BY <1>2, <3>2 DEF Leads, Stores
      <4>3. Decode(t.names, ix.documents[d]) = Decode(ix.fields_ids_map, ix.documents[d])
        BY <1>2, <1>5, <4>2, DecodeExtended
      <4> QED
        BY <1>7, <3>2, <4>1, <4>2, <4>3
    <3> QED
      BY <1>7, <2>2, <3>1, <3>2
  <2>3. IsFunction(documents)
    BY <1>8 DEF Holds
  <2> QED
    BY <2>1, <2>2, <2>3 DEF View
<1> QED
  BY <1>3, <1>8 DEF r, output

-----------------------------------------------------------------------------
(* The steps of the specification.                                           *)

\* Everything that is kept true of an index and of the documents it promises.
Kept == Good(index) /\ IsStore(store)

\* The batches are sequences of operations; with RefusedBatches off they add a document.
LEMMA BatchesFacts ==
  ASSUME NEW batch \in Batches
  PROVE  /\ batch \in Seq(Operations)
         /\ ~RefusedBatches => \E k \in 1 .. Len(batch) : HasDocument(batch[k])
<1>1. PICK n \in 1 .. MaxOperations : batch \in [1 .. n -> Operations]
  BY DEF Batches
<1>2. CASE n \in Nat
  <2>1. batch \in Seq(Operations) /\ DOMAIN batch = 1 .. Len(batch)
    BY <1>1, <1>2
  <2> QED
    BY <2>1, Zenon DEF Batches, HasDocument
<1> QED
  BY <1>1, <1>2

\* A batch keeps the index in order, whatever it holds.
LEMMA IndexDocumentsKept ==
  ASSUME Kept, NEW batch \in Batches, NEW method \in Methods, NEW small,
         IndexDocuments(batch, method, small)
  PROVE  Kept' /\ (~RefusedBatches /\ View(index, store) => View(index, store)')
<1>1. /\ batch \in Seq(Operations)
      /\ ~RefusedBatches => \E k \in 1 .. Len(batch) : HasDocument(batch[k])
  BY BatchesFacts
<1>2. Good(index) /\ IsStore(store)
  BY DEF Kept
<1>3. PICK t, documents :
         /\ ReadSoFar(Len(batch), t, documents, batch, method)
         /\ index' = Executed(index, t, method, small)
         /\ store' = IF t.failed THEN store ELSE documents
  BY <1>1, <1>2, BatchReads
<1>4. IsStore(documents)
  BY <1>2, <1>3, Zenon DEF ReadSoFar
<1>5. IsStore(store')
  BY <1>2, <1>3, <1>4
<1>6. CASE t.failed
  <2>1. index' = index /\ store' = store
    BY <1>3, <1>6, Zenon DEF Executed
  <2> QED
    BY <1>2, <2>1 DEF Kept, Good, View, IsStore
<1>7. CASE ~t.failed
  <2>1. /\ Reads(index, t, method)
        /\ \A k \in 1 .. Len(batch) : HasDocument(batch[k]) => t.added # 0
        /\ View(index, store) => Holds(index, t, method, documents)
    BY <1>3, <1>7, Zenon DEF ReadSoFar
  <2>2. store' = documents
    BY <1>3, <1>7
  <2>3. CASE t.added = 0
    <3>1. index' = index
      BY <1>3, <2>3, Zenon DEF Executed
    <3>2. RefusedBatches
      BY <1>1, <2>1, <2>3
    <3>3. Good(index')
      BY <1>2, <3>1
    <3> QED
      BY <1>5, <3>2, <3>3 DEF Kept
  <2>4. CASE t.added # 0
    <3> DEFINE r == Raw(index, output_from_sorter(index, t, method), small)
    <3>1. index' = r
      BY <1>3, <1>7, <2>4, Zenon DEF Executed
    <3>2. Good(r) /\ \A d : Holds(index, t, method, d) => View(r, d)
      BY <1>2, <2>1, ExecutedView
    <3> HIDE DEF r
    <3>3. Good(index')
      BY <3>1, <3>2
    <3>4. View(index, store) => View(index', store')
      BY <2>1, <2>2, <3>1, <3>2
    <3> QED
      BY <1>5, <3>3, <3>4 DEF Kept
  <2> QED
    BY <2>3, <2>4
<1> QED
  BY <1>6, <1>7

\* A deletion takes the documents of the identifiers out of the index, and no other.
LEMMA DeleteDocumentsKept ==
  ASSUME Kept, NEW ids, NEW small, DeleteDocuments(ids, small)
  PROVE  Kept' /\ (View(index, store) => View(index, store)')
<1> DEFINE gone == {get(index, id) : id \in ids} \ {None}
           r == Deleted(index, gone, small)
<1>1. Good(index) /\ IsStore(store) /\ Stores(index) /\ Identifies(index)
  BY DEF Kept, Good
<1>2. index' = r /\ store' = Restrict(store, DOMAIN store \ ids)
  BY DEF DeleteDocuments
<1>3. /\ \A id : get(index, id) # None => Leads(index, id, get(index, id))
      /\ \A id, d : Leads(index, id, d) => get(index, id) = d /\ d # None
  BY <1>1, GetFacts
<1>4. gone \in SUBSET index.documents_ids
  BY <1>3 DEF Leads
<1>5. \A id, d : Leads(index, id, d) => (d \in gone <=> id \in ids)
  <2> SUFFICES ASSUME NEW id, NEW d, Leads(index, id, d) PROVE d \in gone <=> id \in ids
    OBVIOUS
  <2>1. ASSUME d \in gone PROVE id \in ids
    <3>1. PICK x \in ids : get(index, x) = d /\ d # None
      BY <2>1
    <3>2. Leads(index, x, d)
      BY <1>3, <3>1
    <3> QED
      BY <1>1, <3>1, <3>2 DEF Identifies
  <2>2. ASSUME id \in ids PROVE d \in gone
    BY <1>3, <2>2
  <2> QED
    BY <2>1, <2>2
<1> HIDE DEF gone
<1>6. Good(r) /\ Leaves(r, index, gone)
  BY <1>1, <1>4, DeletedGood
<1> HIDE DEF r
<1>7. /\ IsFunction(store') /\ DOMAIN store' = DOMAIN store \ ids
      /\ \A id \in DOMAIN store \ ids : store'[id] = store[id]
  BY <1>2, RestrictFacts
<1>8. IsStore(store')
  BY <1>1, <1>7 DEF IsStore
<1>9. /\ r.fields_ids_map = index.fields_ids_map
      /\ r.documents_ids = index.documents_ids \ gone
      /\ \A d \in r.documents_ids : r.documents[d] = index.documents[d]
      /\ \A id, d : Leads(r, id, d) <=> Leads(index, id, d) /\ d \notin gone
  BY <1>6 DEF Leaves
<1>10. ASSUME View(index, store) PROVE View(r, store')
  <2>1. ASSUME NEW id PROVE id \in DOMAIN store' <=> \E d : Leads(r, id, d)
    <3>1. id \in DOMAIN store <=> \E d : Leads(index, id, d)
      BY <1>10 DEF View
    <3> QED
      BY <1>5, <1>7, <1>9, <3>1
  <2>2. ASSUME NEW id, NEW d, Leads(r, id, d)
        PROVE  store'[id] = Decode(r.fields_ids_map, r.documents[d])
    <3>1. Leads(index, id, d) /\ d \notin gone /\ id \notin ids
      BY <1>5, <1>9, <2>2
    <3>2. id \in DOMAIN store /\ store[id] = Decode(index.fields_ids_map, index.documents[d])
      BY <1>10, <3>1 DEF View
    <3>3. d \in r.documents_ids
      BY <1>9, <3>1 DEF Leads
    <3> QED
      BY <1>7, <1>9, <3>1, <3>2, <3>3
  <2> QED
    BY <1>7, <2>1, <2>2 DEF View
<1>11. Good(index') /\ (View(index, store) => View(index', store'))
  BY <1>2, <1>6, <1>10
<1> QED
  BY <1>8, <1>11 DEF Kept

\* A clear leaves no document.
LEMMA ClearDocumentsKept ==
  ASSUME Kept, ClearDocuments
  PROVE  Kept' /\ View(index, store)'
<1> DEFINE r == Cleared(index)
<1>1. IsIndex(index) /\ IsSettings(index.settings) /\ Distinct(index.fields_ids_map)
  BY DEF Kept, Good, Stores
<1>2. Good(r) /\ \A id, d : ~Leads(r, id, d)
  BY <1>1, ClearedGood
<1>3. index' = r /\ store' = <<>>
  BY DEF ClearDocuments
<1> HIDE DEF r
<1>4. IsFunction(store') /\ DOMAIN store' = {}
  BY <1>3, NothingFacts
<1>5. View(r, store')
  BY <1>2, <1>4 DEF View
<1>6. IsStore(store')
  BY <1>4 DEF IsStore
<1>7. Good(index') /\ View(index', store')
  BY <1>2, <1>3, <1>5
<1> QED
  BY <1>6, <1>7 DEF Kept

\* A document has the fields that it has under its names.
LEMMA HasFieldNamed ==
  ASSUME NEW documents, NEW d, NEW names, Distinct(names), Encoded(documents[d], names), NEW f
  PROVE  HasField(documents, names, f, d) <=> f \in DOMAIN Decode(names, documents[d])
<1>1. Names(Decode(names, documents[d]), names, documents[d])
  BY DecodeFacts
<1> QED
  BY <1>1 DEF Names, HasField

\* Documents under other ids, in a map that has their names.
Recoded(new, old, live, more, names) ==
  /\ IsFunction(new) /\ DOMAIN new = live
  /\ \A d \in live : Encoded(new[d], more) /\ Decode(more, new[d]) = Decode(names, old[d])

\* They count the same.
LEMMA RecodedCounts ==
  ASSUME NEW new, NEW old, NEW live \in SUBSET (0 .. MaxDocId), NEW more, Distinct(more),
         NEW names, Distinct(names), \A d \in live : Encoded(old[d], names),
         Recoded(new, old, live, more, names),
         NEW distribution, Counts(distribution, old, live, names)
  PROVE  Counts(distribution, new, live, more)
<1>1. ASSUME NEW f PROVE CountedIn(old, live, names, f) = CountedIn(new, live, more, f)
  <2>1. ASSUME NEW d \in live PROVE HasField(old, names, f, d) <=> HasField(new, more, f, d)
    <3>1. Encoded(new[d], more) /\ Decode(more, new[d]) = Decode(names, old[d])
      BY DEF Recoded
    <3>2. HasField(new, more, f, d) <=> f \in DOMAIN Decode(more, new[d])
      BY <3>1, HasFieldNamed
    <3>3. HasField(old, names, f, d) <=> f \in DOMAIN Decode(names, old[d])
      BY HasFieldNamed
    <3> QED
      BY <3>1, <3>2, <3>3
  <2>2. {d \in live : HasField(old, names, f, d)} = {d \in live : HasField(new, more, f, d)}
    BY <2>1
  <2> QED
    BY <2>2 DEF CountedIn, HasField
<1>2. ASSUME NEW f
      PROVE  /\ f \in DOMAIN distribution <=> CountedIn(new, live, more, f) > 0
             /\ IsFunction(distribution)
             /\ f \in DOMAIN distribution => distribution[f] = CountedIn(new, live, more, f)
  <2>1. /\ f \in DOMAIN distribution <=> CountedIn(old, live, names, f) > 0
        /\ IsFunction(distribution)
        /\ f \in DOMAIN distribution => distribution[f] = CountedIn(old, live, names, f)
    BY CountOf
  <2> QED
    BY <1>1, <2>1
<1>3. \A d \in live : Encoded(new[d], more)
  BY DEF Recoded
<1> QED
  BY <1>2, <1>3, CountsDirect

\* The index is built again, under a map that has the names of the one before and under any
\* settings, from the documents it holds.
LEMMA ReindexedView ==
  ASSUME NEW ix, Good(ix), NEW settings, IsSettings(settings), NEW names, Distinct(names),
         Range(ix.fields_ids_map) \subseteq Range(names)
  PROVE  LET r == Reindexed([ix EXCEPT !.settings = settings], names) IN
         Good(r) /\ \A documents : View(ix, documents) => View(r, documents)
<1> DEFINE set == [ix EXCEPT !.settings = settings]
           cleared == Cleared(set)
           mapped == [cleared EXCEPT !.fields_ids_map = names]
           live == ix.documents_ids
           recode(d) == Encode(names, Decode(set.fields_ids_map, set.documents[d]))
           new == [d \in set.documents_ids |-> recode(d)]
           ids == ToFst(delete_soft_deleted_documents_ids_from_fsts(set))
           output == [fields_ids_map |-> names, documents |-> new,
                      new_ids |-> set.documents_ids, replaced |-> {},
                      external_ids |-> ids, distribution |-> set.distribution]
           r == Raw(cleared, output, TRUE)
<1>1. Reindexed(set, names) = r
  BY Zenon DEF Reindexed
<1> SUFFICES Good(r) /\ \A documents : View(ix, documents) => View(r, documents)
  BY <1>1
<1>2. /\ IsIndex(ix) /\ Stores(ix) /\ Identifies(ix)
      /\ Distinct(ix.fields_ids_map) /\ IsFunction(ix.hard) /\ IsFunction(ix.soft)
      /\ Counts(ix.distribution, ix.documents, live, ix.fields_ids_map)
  BY DEF Good, Stores, Identifies
<1>3. /\ IsIndex(set) /\ set.settings = settings /\ set.fields_ids_map = ix.fields_ids_map
      /\ set.documents = ix.documents /\ set.documents_ids = live
      /\ set.soft_deleted = ix.soft_deleted /\ set.hard = ix.hard /\ set.soft = ix.soft
      /\ set.distribution = ix.distribution
  BY <1>2 DEF IsIndex
<1>4. /\ output.fields_ids_map = names /\ output.documents = new /\ output.new_ids = live
      /\ output.replaced = {} /\ output.external_ids = ids
      /\ output.distribution = ix.distribution
  BY <1>3
<1> HIDE DEF set, output
<1>5. Good(cleared) /\ IsIndex(cleared) /\ \A id, d : ~Leads(cleared, id, d)
  BY <1>2, <1>3, ClearedGood DEF Good
<1>6. cleared.documents_ids = {} /\ cleared.settings = settings
  BY <1>3, ClearedFields
<1> HIDE DEF cleared
<1>7. /\ IsIndex(mapped) /\ mapped.fields_ids_map = names /\ mapped.settings = settings
      /\ mapped.documents = cleared.documents /\ mapped.documents_ids = cleared.documents_ids
      /\ mapped.soft_deleted = cleared.soft_deleted /\ mapped.hard = cleared.hard
      /\ mapped.soft = cleared.soft /\ mapped.distribution = cleared.distribution
      /\ mapped.db = cleared.db /\ mapped.words_fst = cleared.words_fst
      /\ mapped.prefixes_fst = cleared.prefixes_fst /\ mapped.prefix_db = cleared.prefix_db
  BY <1>5, <1>6 DEF IsIndex
<1>8. mapped = [cleared EXCEPT !.fields_ids_map = output.fields_ids_map]
  BY <1>4
<1> HIDE DEF mapped
<1>9. /\ Good(mapped) /\ DOMAIN mapped.documents = {} /\ \A id, d : ~Leads(mapped, id, d)
  BY <1>5, <1>6, <1>7, EmptyGood
<1>10. live \in SUBSET (0 .. MaxDocId) /\ \A d \in live : Encoded(ix.documents[d], ix.fields_ids_map)
  BY <1>2 DEF Stores
<1>11. Recoded(new, ix.documents, live, names, ix.fields_ids_map)
  <2>1. ASSUME NEW d \in live
        PROVE  /\ Encoded(recode(d), names)
               /\ Decode(names, recode(d)) = Decode(ix.fields_ids_map, ix.documents[d])
    <3> DEFINE content == Decode(ix.fields_ids_map, ix.documents[d])
    <3>1. Names(content, ix.fields_ids_map, ix.documents[d])
      BY <1>2, <1>10, DecodeFacts
    <3>2. recode(d) = Encode(names, content)
      BY <1>3
    <3> HIDE DEF content
    <3>3. /\ IsFunction(content) /\ DOMAIN content \subseteq Range(names)
          /\ \A f \in DOMAIN content : IsValue(content[f])
      BY <1>10, <3>1 DEF Names, Encoded
    <3>4. Encoded(Encode(names, content), names) /\ Decode(names, Encode(names, content)) = content
      BY <3>3, EncodeFacts
    <3> QED
      BY <3>2, <3>4 DEF content
  <2>2. new = [d \in live |-> recode(d)]
    BY <1>3
  <2> HIDE DEF recode, new
  <2> QED
    BY <2>1, <2>2 DEF Recoded, IsFunction
<1> HIDE DEF new
<1>12. Counts(ix.distribution, new, live, names)
  BY <1>2, <1>10, <1>11, RecodedCounts
<1>13. /\ IsFunction(ids)
       /\ \A id, d : id \in DOMAIN ids /\ ids[id] = d <=> Leads(ix, id, d)
       /\ \A id \in DOMAIN ids : Leads(ix, id, ids[id])
  <2> DEFINE purged == delete_soft_deleted_documents_ids_from_fsts(set)
             kept == {id \in DOMAIN ToFst(ix) : ToFst(ix)[id] \notin ix.soft_deleted}
  <2>1. ToFst(set) = ToFst(ix)
    BY <1>3 DEF ToFst
  <2>2. purged.hard = Restrict(ToFst(ix), kept) /\ purged.soft = <<>>
    BY <1>3, <2>1 DEF IsIndex, delete_soft_deleted_documents_ids_from_fsts
  <2> HIDE DEF purged
  <2>3. IsFunction(purged.hard) /\ DOMAIN purged.soft = {}
    BY <2>2, RestrictFacts, NothingFacts
  <2>4. ids = purged.hard
    BY <2>3, OverNothing DEF ToFst, purged
  <2>5. IsFunction(ids) /\ DOMAIN ids = kept /\ \A id \in kept : ids[id] = ToFst(ix)[id]
    BY <2>2, <2>4, RestrictFacts
  <2> HIDE DEF ids
  <2>6. \A id : id \in kept <=> id \in DOMAIN ToFst(ix) /\ ToFst(ix)[id] \in live
    BY <1>2 DEF Identifies, Stores
  <2> HIDE DEF kept
  <2> QED
    BY <2>5, <2>6 DEF Leads
<1> HIDE DEF ids
<1>14. DOMAIN new = live /\ IsFunction(new) /\ \A d \in live : Encoded(new[d], names)
  BY <1>11 DEF Recoded
<1>15. Batch(mapped, output)
  <2>1. Over(output.documents, mapped.documents) = new
    BY <1>4, <1>9, <1>14, OverNothing
  <2>2. Counts(output.distribution, Over(output.documents, mapped.documents),
               (mapped.documents_ids \ output.replaced) \cup output.new_ids, mapped.fields_ids_map)
    <3>1. (mapped.documents_ids \ output.replaced) \cup output.new_ids = live
      BY <1>4, <1>6, <1>7
    <3> QED
      BY <1>4, <1>7, <1>12, <2>1, <3>1
  <2>3. DOMAIN ids \subseteq ExternalIds
    BY <1>2, <1>13 DEF Identifies, Leads
  <2>4. \A id \in DOMAIN ids : ids[id] \in live
    BY <1>13 DEF Leads
  <2>5. \A d \in live : \E id \in DOMAIN ids : ids[id] = d
    BY <1>2, <1>13 DEF Identifies
  <2>6. \A x, y \in DOMAIN ids : ids[x] = ids[y] => x = y
    <3> SUFFICES ASSUME NEW x \in DOMAIN ids, NEW y \in DOMAIN ids, ids[x] = ids[y] PROVE x = y
      OBVIOUS
    <3>1. Leads(ix, x, ids[x]) /\ Leads(ix, y, ids[x])
      BY <1>13
    <3> QED
      BY <1>2, <3>1 DEF Identifies
  <2> QED
    BY <1>4, <1>7, <1>9, <1>10, <1>13, <1>14, <2>2, <2>3, <2>4, <2>5, <2>6 DEF Batch
<1>16. Good(r) /\ Becomes(r, mapped, output)
  BY <1>5, <1>8, <1>9, <1>15, RawGood
<1> HIDE DEF r
<1>17. /\ r.fields_ids_map = names
       /\ \A d \in live : r.documents[d] = new[d]
       /\ \A id, d : Leads(r, id, d) <=> Leads(ix, id, d)
  BY <1>4, <1>7, <1>9, <1>13, <1>16 DEF Becomes
<1>18. \A d \in live : Decode(r.fields_ids_map, r.documents[d])
                         = Decode(ix.fields_ids_map, ix.documents[d])
  BY <1>11, <1>17 DEF Recoded
<1>19. ASSUME NEW documents, View(ix, documents) PROVE View(r, documents)
  <2>1. \A id, d : Leads(ix, id, d) => d \in live
    BY DEF Leads
  <2> QED
    BY <1>17, <1>18, <1>19, <2>1 DEF View
<1> QED
  BY <1>16, <1>19

\* The map that update_searchable leaves has every name of the one before.
LEMMA SearchableMapFacts ==
  ASSUME NEW names, Distinct(names), NEW settings \in SettingsChoices
  PROVE  LET r == SearchableMap(names, settings.searchable)
         IN Distinct(r) /\ Range(names) \subseteq Range(r)
<1> DEFINE searchable == settings.searchable
           r == InsertFields(searchable, names, Range(names))
<1>1. /\ searchable \in Seq(Range(searchable))
      /\ \A i, j \in DOMAIN searchable : searchable[i] = searchable[j] => i = j
  BY SettingsAssumption
<1>2. Range(searchable) \subseteq FieldNames
  BY DEF FieldNames
<1> HIDE DEF searchable
<1>3. Distinct(searchable)
  <2>1. DOMAIN searchable = 1 .. Len(searchable) /\ searchable \in Seq(FieldNames)
    BY <1>1, <1>2
  <2> QED
    BY <1>1, <2>1 DEF Distinct
<1>4. names \in Seq(FieldNames)
  BY DEF Distinct
<1>5. /\ Distinct(r)
      /\ Range(searchable) \cup (Range(names) \cap Range(names)) \subseteq Range(r)
  BY <1>3, <1>4, InsertFieldsFacts
<1> HIDE DEF r
<1>6. Range(names) \subseteq Range(r)
  BY <1>5
<1> QED
  BY <1>5, <1>6, Zenon DEF SearchableMap, searchable, r

\* A change of settings keeps the documents.
LEMMA UpdateSettingsKept ==
  ASSUME Kept, NEW settings \in SettingsChoices, UpdateSettings(settings)
  PROVE  Kept' /\ (View(index, store) => View(index, store)')
<1> DEFINE old == index.settings
           searchable_updated == settings.searchable # old.searchable
           names == IF searchable_updated
                    THEN SearchableMap(index.fields_ids_map, settings.searchable)
                    ELSE index.fields_ids_map
           updated == \/ settings.stop_words # old.stop_words
                      \/ settings.faceted # old.faceted
                      \/ searchable_updated
                      \/ settings.exact_attributes # old.exact_attributes
           set == [index EXCEPT !.settings = settings]
           r == IF updated /\ index.documents_ids # {} THEN Reindexed(set, names)
                ELSE [set EXCEPT !.fields_ids_map = names]
<1>1. /\ Good(index) /\ IsStore(store) /\ IsIndex(index) /\ IsSettings(old)
      /\ Distinct(index.fields_ids_map)
  BY DEF Kept, Good, Stores
<1>2. IsSettings(settings)
  BY SettingsAssumption DEF IsSettings
<1>3. settings # old /\ index' = r /\ store' = store
  BY Zenon DEF UpdateSettings, WithSettings
<1>4. updated
  <2>1. ASSUME ~updated PROVE settings = old
    <3>1. /\ settings.stop_words = old.stop_words /\ settings.faceted = old.faceted
          /\ settings.searchable = old.searchable
          /\ settings.exact_attributes = old.exact_attributes
      BY <2>1
    <3> HIDE DEF old
    <3> QED
      BY <1>1, <1>2, <3>1 DEF IsSettings
  <2> QED
    BY <1>3, <2>1
<1>5. Distinct(names) /\ Range(index.fields_ids_map) \subseteq Range(names)
  BY <1>1, SearchableMapFacts
<1> HIDE DEF names, updated
<1>6. Good(r) /\ \A documents : View(index, documents) => View(r, documents)
  <2>1. CASE index.documents_ids # {}
    <3>1. r = Reindexed(set, names)
      BY <1>4, <2>1
    <3>2. /\ Good(Reindexed(set, names))
          /\ \A documents : View(index, documents) => View(Reindexed(set, names), documents)
      BY <1>1, <1>2, <1>5, ReindexedView
    <3> HIDE DEF r, set
    <3> QED
      BY <3>1, <3>2
  <2>2. CASE index.documents_ids = {}
    <3>1. r = [set EXCEPT !.fields_ids_map = names]
      BY <2>2
    <3>2. /\ IsIndex(r) /\ r.settings = settings /\ r.fields_ids_map = names
          /\ r.documents = index.documents /\ r.documents_ids = index.documents_ids
          /\ r.soft_deleted = index.soft_deleted /\ r.hard = index.hard /\ r.soft = index.soft
          /\ r.distribution = index.distribution /\ r.db = index.db
          /\ r.words_fst = index.words_fst /\ r.prefixes_fst = index.prefixes_fst
          /\ r.prefix_db = index.prefix_db
      <4> HIDE DEF r
      <4> QED
        BY <1>1, <3>1 DEF IsIndex
    <3> HIDE DEF r
    <3>3. Good(r) /\ \A id, d : Leads(r, id, d) <=> Leads(index, id, d)
      BY <1>1, <1>2, <1>5, <2>2, <3>2, EmptyGood
    <3>4. \A id, d : ~Leads(index, id, d)
      BY <2>2 DEF Leads
    <3> QED
      BY <3>3, <3>4 DEF View
  <2> QED
    BY <2>1, <2>2
<1> HIDE DEF r
<1>7. Good(index') /\ (View(index, store) => View(index', store'))
  BY <1>3, <1>6
<1>8. IsStore(store')
  BY <1>1, <1>3
<1> QED
  BY <1>7, <1>8 DEF Kept

-----------------------------------------------------------------------------
(* The theorems.                                                             *)

\* A new index is in order and holds nothing.
LEMMA InitKept ==
  ASSUME Init
  PROVE  Kept /\ View(index, store)
<1>1. /\ IsIndex(index) /\ index.fields_ids_map = <<>> /\ index.documents = <<>>
      /\ index.documents_ids = {} /\ index.soft_deleted = {} /\ index.hard = <<>>
      /\ index.soft = <<>> /\ index.distribution = <<>>
      /\ index.db = EmptyRelations(PostingKinds) /\ index.words_fst = {}
      /\ index.prefixes_fst = {} /\ index.prefix_db = EmptyRelations(PrefixKinds)
      /\ IsSettings(index.settings)
  BY DEF Init, IsIndex, IsSettings
<1>2. Distinct(index.fields_ids_map)
  <2>1. <<>> \in Seq(FieldNames) /\ Len(<<>>) = 0
    OBVIOUS
  <2>2. 1 .. 0 = {}
    OBVIOUS
  <2> QED
    BY <1>1, <2>1, <2>2, Zenon DEF Distinct
<1> DEFINE r == Cleared(index)
<1>3. Good(r) /\ \A id, d : ~Leads(r, id, d)
  BY <1>1, <1>2, ClearedGood
<1>4. r.documents_ids = {}
  BY <1>1, ClearedFields
<1>5. /\ index.documents = r.documents /\ index.documents_ids = r.documents_ids
      /\ index.soft_deleted = r.soft_deleted /\ index.hard = r.hard /\ index.soft = r.soft
      /\ index.distribution = r.distribution /\ index.db = r.db
      /\ index.words_fst = r.words_fst /\ index.prefixes_fst = r.prefixes_fst
      /\ index.prefix_db = r.prefix_db
  BY <1>1, ClearedFields
<1> HIDE DEF r
<1>6. Good(index) /\ \A id, d : ~Leads(index, id, d)
  BY <1>1, <1>2, <1>3, <1>4, <1>5, EmptyGood
<1>7. IsFunction(store) /\ DOMAIN store = {}
  BY NothingFacts DEF Init
<1>8. View(index, store)
  BY <1>6, <1>7 DEF View
<1> QED
  BY <1>6, <1>7, <1>8 DEF Kept, IsStore

\* Every step keeps the index in order; and, unless a batch may add no document at all, keeps it
\* what the operations ask for.
LEMMA NextKept ==
  ASSUME Kept, [Next]_vars
  PROVE  Kept' /\ (~RefusedBatches /\ View(index, store) => View(index, store)')
<1>1. CASE UNCHANGED vars
  <2>1. index' = index /\ store' = store
    BY <1>1 DEF vars
  <2>2. Good(index') /\ IsStore(store') /\ (View(index, store) => View(index', store'))
    BY <2>1 DEF Kept
  <2> QED
    BY <2>2 DEF Kept
<1>2. ASSUME NEW batch \in Batches, NEW method \in Methods, NEW small \in BOOLEAN,
             IndexDocuments(batch, method, small)
      PROVE  Kept' /\ (~RefusedBatches /\ View(index, store) => View(index, store)')
  BY <1>2, IndexDocumentsKept
<1>3. ASSUME NEW ids \in SUBSET ExternalIds \ {{}}, NEW small \in BOOLEAN,
             DeleteDocuments(ids, small)
      PROVE  Kept' /\ (View(index, store) => View(index, store)')
  BY <1>3, DeleteDocumentsKept
<1>4. CASE ClearDocuments
  BY <1>4, ClearDocumentsKept
<1>5. ASSUME NEW settings \in SettingsChoices, UpdateSettings(settings)
      PROVE  Kept' /\ (View(index, store) => View(index, store)')
  BY <1>5, UpdateSettingsKept
<1> QED
  BY <1>1, <1>2, <1>3, <1>4, <1>5 DEF Next

\* An index that is in order has exact databases.
LEMMA KeptExact ==
  Kept => DatabasesExact
<1> SUFFICES ASSUME Kept PROVE DatabasesExact
  OBVIOUS
<1>1. /\ Stores(index) /\ Files(index) /\ Clean(index) /\ IsStore(store)
      /\ Counts(index.distribution, index.documents, index.documents_ids, index.fields_ids_map)
  BY DEF Kept, Good
<1>2. TypeOK
  BY <1>1 DEF TypeOK, Stores, IsStore
<1>3. EmptyIndexIsClean
  BY <1>1 DEF EmptyIndexIsClean, Clean
<1>4. DistributionExact
  BY <1>1, Zenon DEF DistributionExact, Counts
<1>5. PostingsExact /\ WordsFstExact
  BY <1>1 DEF PostingsExact, WordsFstExact, Files
<1> QED
  BY <1>2, <1>3, <1>4, <1>5 DEF DatabasesExact

\* The documents that are filed under a word, in either of the two word databases.
LEMMA FiledUnder ==
  ASSUME NEW ix, Stores(ix), Files(ix), NEW d, NEW w
  PROVE  (\E kd \in ix.db["word_docids"] \cup ix.db["exact_word_docids"] :
             kd[1][1] = w /\ kd[2] = d)
           <=> /\ d \in DOMAIN ix.documents
               /\ \E o \in Occurrences(ix.documents[d], ix.settings, ix.fields_ids_map) : o.word = w
<1> DEFINE keys(e) == Keys(ix.documents[e], ix.settings, ix.fields_ids_map)
           occurrences(e) == Occurrences(ix.documents[e], ix.settings, ix.fields_ids_map)
           two == {"word_docids", "exact_word_docids"}
<1>1. two \subseteq PostingKinds /\ two \subseteq WordKinds
  BY DEF PostingKinds, WordKinds
<1>2. \A kind \in two : \A x : x \in ix.db[kind] <=>
        \E e \in DOMAIN ix.documents : \E k \in keys(e)[kind] : x = <<k, e>>
  <2>1. ix.db = Postings(ix.documents, ix.settings, ix.fields_ids_map)
    BY DEF Files
  <2> QED
    BY <1>1, <2>1, PostingsFacts DEF Filed
<1>3. \A e : /\ \A kind \in two : \A k \in keys(e)[kind] : \E o \in occurrences(e) : k[1] = o.word
             /\ \A o \in occurrences(e) : \E kind \in two : <<o.word, 0>> \in keys(e)[kind]
  BY <1>1, KeysWords
<1> HIDE DEF keys, occurrences
<1>4. ASSUME NEW kind \in two, NEW kd \in ix.db[kind], kd[1][1] = w, kd[2] = d
      PROVE  d \in DOMAIN ix.documents /\ \E o \in occurrences(d) : o.word = w
  <2>1. PICK e \in DOMAIN ix.documents : \E k \in keys(e)[kind] : kd = <<k, e>>
    BY <1>2
  <2>2. PICK k \in keys(e)[kind] : kd = <<k, e>>
    BY <2>1
  <2>3. e = d /\ k[1] = w
    BY <1>4, <2>2
  <2> QED
    BY <1>3, <2>1, <2>2, <2>3
<1>5. ASSUME d \in DOMAIN ix.documents, NEW o \in occurrences(d), o.word = w
      PROVE  \E kind \in two : \E kd \in ix.db[kind] : kd[1][1] = w /\ kd[2] = d
  <2>1. PICK kind \in two : <<o.word, 0>> \in keys(d)[kind]
    BY <1>3, <1>5
  <2>2. <<<<o.word, 0>>, d>> \in ix.db[kind]
    BY <1>2, <1>5, <2>1
  <2>3. <<<<o.word, 0>>, d>>[1][1] = w /\ <<<<o.word, 0>>, d>>[2] = d
    BY <1>5
  <2> QED
    BY <2>1, <2>2, <2>3
<1> QED
  BY <1>4, <1>5 DEF occurrences

\* The prefix databases give what their words give.
LEMMA PrefixedExact ==
  ASSUME Stores(index), Files(index), Prefixed(index)
  PROVE  PrefixesExact
<1> DEFINE db == index.db
           filed == index.prefix_db
           fst == index.prefixes_fst
           words == index.words_fst
           occurrences(d) == Occurrences(index.documents[d], index.settings, index.fields_ids_map)
           stored(p) == DocidsAt(filed["word_docids"], {p})
                          \cup DocidsAt(filed["exact_word_docids"], {p})
           starting(p) == {w \in words : StartsWith(w, p)}
           found(p) == DocidsAt(db["word_docids"], starting(p))
                         \cup DocidsAt(db["exact_word_docids"], starting(p))
           two == {"word_docids", "exact_word_docids"}
<1>1. /\ \A p : PrefixSearch(p) = IF stored(p) # {} THEN stored(p) ELSE found(p)
      /\ \A p, d : d \in PrefixDocuments(p) <=>
           d \in index.documents_ids /\ \E o \in occurrences(d) : StartsWith(o.word, p)
  BY Zenon DEF PrefixSearch, PrefixDocuments
<1>2. \A p, d : d \in stored(p) <=>
        \E kind \in two : \E kd \in filed[kind] : kd[1][1] = p /\ kd[2] = d
  BY DEF DocidsAt
<1>3. \A p, d : d \in found(p) <=>
        \E kind \in two : \E kd \in db[kind] : kd[1][1] \in starting(p) /\ kd[2] = d
  BY DEF DocidsAt
<1>4. /\ two \subseteq PrefixKinds /\ two \subseteq WordKinds
      /\ \A kind \in WordKinds : kind \in PrefixKinds /\ Source(db, kind) = db[kind]
  BY DEF PrefixKinds, WordKinds, Source
<1>5. \A d, w : (\E kind \in two : \E kd \in db[kind] : kd[1][1] = w /\ kd[2] = d)
                  <=> d \in DOMAIN index.documents /\ \E o \in occurrences(d) : o.word = w
  <2>1. \A d, w : (\E kd \in db["word_docids"] \cup db["exact_word_docids"] :
                      kd[1][1] = w /\ kd[2] = d)
                    <=> d \in DOMAIN index.documents /\ \E o \in occurrences(d) : o.word = w
    BY FiledUnder
  <2> QED
    BY <2>1
<1>6. \A kind \in two : \A kd \in db[kind] : kd[1][1] \in words
  BY DEF Files, WordsOf
<1>7. Sound(db, filed)
  BY DEF Prefixed
<1>8. index.documents_ids \subseteq DOMAIN index.documents
  BY DEF Stores
<1> HIDE DEF occurrences, stored, found
<1>9. PrefixSearchSound
  <2> SUFFICES ASSUME NEW p, NEW d \in PrefixSearch(p), d \in index.documents_ids
               PROVE  d \in PrefixDocuments(p)
    BY DEF PrefixSearchSound
  <2>1. \E kind \in two : \E kd \in db[kind] : StartsWith(kd[1][1], p) /\ kd[2] = d
    <3>1. CASE d \in stored(p)
      <4>1. PICK kind \in two : \E x \in filed[kind] : x[1][1] = p /\ x[2] = d
        BY <1>2, <3>1
      <4>2. PICK x \in filed[kind] : x[1][1] = p /\ x[2] = d
        BY <4>1
      <4>3. PICK kd \in Source(db, kind) : StartsWith(kd[1][1], p) /\ x = At(kd, p)
        BY <1>4, <1>7, <4>2 DEF Sound
      <4>4. kd[2] = d
        BY <4>2, <4>3, AtPrefix
      <4> QED
        BY <1>4, <4>3, <4>4
    <3>2. CASE d \in found(p)
      BY <1>3, <3>2
    <3> QED
      BY <1>1, <3>1, <3>2
  <2> QED
    BY <1>1, <1>5, <2>1
<1>10. HasExactField <=> Exact(index.settings, index.fields_ids_map)
  BY DEF HasExactField, Exact
<1>11. ASSUME ~HasExactField PROVE PrefixSearchComplete /\ PrefixPostingsExact
  <2>1. Full(db, filed, fst) /\ Known(filed, fst)
    BY <1>10, <1>11 DEF Prefixed
  <2>2. db["exact_word_docids"] = {}
    <3>1. Worded(db, index.settings, index.fields_ids_map)
      BY PostingsWorded DEF Files, Stores
    <3> QED
      BY <1>10, <1>11, <3>1 DEF Worded
  <2>3. ASSUME NEW p, NEW d \in PrefixDocuments(p) PROVE d \in PrefixSearch(p)
    <3>1. PICK kind \in two : \E kd \in db[kind] : StartsWith(kd[1][1], p) /\ kd[2] = d
      BY <1>1, <1>5, <1>8, <2>3
    <3>2. PICK kd \in db[kind] : StartsWith(kd[1][1], p) /\ kd[2] = d
      BY <3>1
    <3>3. CASE stored(p) = {}
      <4>1. d \in found(p)
        BY <1>3, <1>6, <3>2
      <4> QED
        BY <1>1, <3>3, <4>1
    <3>4. CASE stored(p) # {}
      <4>1. PICK e : e \in stored(p)
        BY <3>4
      <4>2. PICK one \in two : \E y \in filed[one] : y[1][1] = p /\ y[2] = e
        BY <1>2, <4>1
      <4>3. PICK y \in filed[one] : y[1][1] = p
        BY <4>2
      <4>4. p \in fst
        BY <2>1, <4>3 DEF Known
      <4>5. kd \in db["word_docids"]
        BY <2>2, <3>2
      <4>6. At(kd, p) \in filed["word_docids"]
        BY <1>4, <2>1, <3>2, <4>4, <4>5 DEF Full, Fits
      <4>7. d \in stored(p)
        BY <1>2, <3>2, <4>6, AtPrefix
      <4> QED
        BY <1>1, <3>4, <4>7
    <3> QED
      BY <3>3, <3>4
  <2>4. \A p, d : d \in PrefixDocuments(p) => d \in index.documents_ids
    BY <1>1
  <2>5. PrefixSearchComplete
    BY <1>9, <2>3, <2>4 DEF PrefixSearchComplete, PrefixSearchSound
  <2>6. ASSUME NEW kind \in PrefixKinds, NEW x
        PROVE  x \in filed[kind] /\ x[1][1] \in fst
                 <=> Abridged(x, Source(db, kind), fst) /\ Fits(kind, x[1][1])
    <3>1. ASSUME x \in filed[kind], x[1][1] \in fst
          PROVE  Abridged(x, Source(db, kind), fst) /\ Fits(kind, x[1][1])
      BY <1>7, <3>1 DEF Sound, Abridged
    <3>2. ASSUME Abridged(x, Source(db, kind), fst), Fits(kind, x[1][1])
          PROVE  x \in filed[kind] /\ x[1][1] \in fst
      <4>1. PICK kd \in Source(db, kind) : \E p \in fst : StartsWith(kd[1][1], p) /\ x = At(kd, p)
        BY <3>2 DEF Abridged
      <4>2. PICK p \in fst : StartsWith(kd[1][1], p) /\ x = At(kd, p)
        BY <4>1
      <4>3. x[1][1] = p
        BY <4>2, AtPrefix
      <4> QED
        BY <2>1, <3>2, <4>1, <4>2, <4>3 DEF Full
    <3> QED
      BY <3>1, <3>2
  <2> DEFINE at(relation) == AtPrefixes(relation, LAMBDA w : index.prefixes_fst)
             short(relation) == {kd \in at(relation) : Len(kd[1][1]) <= MaxPairPrefixLength}
             pairs == index.db["word_pair_proximity_docids"]
             known(relation) == {kd \in relation : kd[1][1] \in index.prefixes_fst}
  <2>7. \A relation, x : x \in at(relation) <=> Abridged(x, relation, fst)
    BY DEF AtPrefixes, Abridged, At
  <2>8. \A relation, x : x \in known(relation) <=> x \in relation /\ x[1][1] \in fst
    OBVIOUS
  <2>9. \A relation, x : x \in short(relation) <=>
          Abridged(x, relation, fst) /\ Len(x[1][1]) <= MaxPairPrefixLength
    BY <2>7
  <2> HIDE DEF at, short, known
  <2>10. \A kind \in WordKinds : known(index.prefix_db[kind]) = at(index.db[kind])
    <3> SUFFICES ASSUME NEW kind \in WordKinds, NEW x
                 PROVE  x \in known(index.prefix_db[kind]) <=> x \in at(index.db[kind])
      OBVIOUS
    <3>1. kind \in PrefixKinds /\ Source(db, kind) = index.db[kind] /\ Fits(kind, x[1][1])
      BY <1>4 DEF Fits
    <3> QED
      BY <2>6, <2>7, <2>8, <3>1
  <2>11. ASSUME NEW kind \in PrefixKinds, kind \notin WordKinds
         PROVE  known(index.prefix_db[kind]) = short(Source(db, kind))
    <3> SUFFICES ASSUME NEW x
                 PROVE  x \in known(index.prefix_db[kind]) <=> x \in short(Source(db, kind))
      OBVIOUS
    <3>1. Fits(kind, x[1][1]) <=> Len(x[1][1]) <= MaxPairPrefixLength
      BY <2>11 DEF Fits
    <3> QED
      BY <2>6, <2>8, <2>9, <3>1
  <2>12. /\ known(index.prefix_db["word_prefix_pair_proximity_docids"])
              = short(SecondAbbreviated(pairs))
         /\ known(index.prefix_db["prefix_word_pair_proximity_docids"])
              = short(FirstAbbreviated(pairs))
    <3>1. /\ Source(db, "word_prefix_pair_proximity_docids") = SecondAbbreviated(pairs)
          /\ Source(db, "prefix_word_pair_proximity_docids") = FirstAbbreviated(pairs)
          /\ {"word_prefix_pair_proximity_docids", "prefix_word_pair_proximity_docids"}
               \subseteq PrefixKinds \ WordKinds
      BY DEF Source, PrefixKinds, WordKinds
    <3> QED
      BY <2>11, <3>1
  <2>13. PrefixPostingsExact
    BY <2>10, <2>12, Zenon DEF PrefixPostingsExact, at, short, known
  <2> QED
    BY <2>5, <2>13
<1> QED
  BY <1>9, <1>11 DEF PrefixesExact

\* The documents that the identifiers lead to are those of the promise.
LEMMA KeptView ==
  Kept /\ View(index, store) => ViewIsStore
<1> SUFFICES ASSUME Kept, View(index, store) PROVE ViewIsStore
  OBVIOUS
<1> DEFINE live == {id \in ExternalIds : get(index, id) # None}
<1>1. Stores(index) /\ Identifies(index)
  BY DEF Kept, Good
<1>2. /\ \A id : get(index, id) # None => Leads(index, id, get(index, id)) /\ id \in ExternalIds
      /\ \A id, d : Leads(index, id, d) => get(index, id) = d /\ d # None
  BY <1>1, GetFacts
<1>3. \A id : id \in live <=> \E d : Leads(index, id, d)
  BY <1>2
<1>4. \A id \in live : Leads(index, id, get(index, id))
  BY <1>2
<1> HIDE DEF live
<1>5. IsFunction(store) /\ DOMAIN store = live
  BY <1>3 DEF View
<1>6. \A id \in live : store[id] = Decode(index.fields_ids_map, index.documents[get(index, id)])
  BY <1>4 DEF View
<1>7. store = [id \in live |-> Decode(index.fields_ids_map, index.documents[get(index, id)])]
  BY <1>5, <1>6 DEF IsFunction
<1>8. index.documents_ids = {get(index, id) : id \in live}
  <2>1. ASSUME NEW d \in index.documents_ids PROVE \E id \in live : d = get(index, id)
    <3>1. PICK id : Leads(index, id, d)
      BY <1>1 DEF Identifies
    <3> QED
      BY <1>2, <1>3, <3>1
  <2>2. \A id \in live : get(index, id) \in index.documents_ids
    BY <1>4 DEF Leads
  <2> QED
    BY <2>1, <2>2
<1>9. \A x, y \in live : get(index, x) = get(index, y) => x = y
  <2> SUFFICES ASSUME NEW x \in live, NEW y \in live, get(index, x) = get(index, y) PROVE x = y
    OBVIOUS
  <2>1. Leads(index, x, get(index, x)) /\ Leads(index, y, get(index, x))
    BY <1>4
  <2> QED
    BY <1>1, <2>1 DEF Identifies
<1> QED
  BY <1>7, <1>8, <1>9, Zenon DEF ViewIsStore, live

\* Whatever batches, deletions, clears and changes of settings came before, every database that is
\* derived from the documents holds exactly what they file under the settings and the field ids of
\* now, the field distribution counts the live documents, and an index without documents is clean,
\* so that the next batch may append to its databases (IndexDocuments::execute_raw,
\* DeleteDocuments::execute_inner, ClearDocuments::execute, Settings::execute).
THEOREM DatabasesAlwaysExact ==
  Spec => []DatabasesExact
<1>1. Init => Kept
  BY InitKept
<1>2. Kept /\ [Next]_vars => Kept'
  BY NextKept
<1> QED
  BY <1>1, <1>2, KeptExact, PTL DEF Spec

\* The documents that the index gives for the user's identifiers are those that the operations,
\* taken one after the other, ask for, and each live document has one identifier: Transform may
\* take them in one batch, renumber the fields and the documents, and delete softly.  It holds when
\* every batch adds a document: IndexDocuments::execute does nothing at all, its deletions
\* included, when Transform has read none.
THEOREM ViewAlwaysStore ==
  ASSUME ~RefusedBatches
  PROVE  Spec => []ViewIsStore
<1> DEFINE Both == Kept /\ View(index, store)
<1>1. Init => Both
  BY InitKept
<1>2. Both /\ [Next]_vars => Both'
  BY NextKept
<1>3. Both => ViewIsStore
  BY KeptView
<1> HIDE DEF Both
<1> QED
  BY <1>1, <1>2, <1>3, PTL DEF Spec

\* The precomputed prefixes never give a document that their words do not; and they give every
\* one, in each of the prefix databases, unless a searchable field is exact: whatever batches,
\* purges and changes of the settings have moved words in and out of the prefix FST, each time with
\* a part of the databases only (execute_prefix_databases, DeleteDocuments::execute_inner).
THEOREM PrefixesAlwaysExact ==
  Spec => []PrefixesExact
<1>1. Init => Kept
  BY InitKept
<1>2. Kept /\ [Next]_vars => Kept'
  BY NextKept
<1>3. Kept => PrefixesExact
  BY PrefixedExact DEF Kept, Good
<1> QED
  BY <1>1, <1>2, <1>3, PTL DEF Spec

=============================================================================
