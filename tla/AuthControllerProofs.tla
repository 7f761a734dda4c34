------------------------ MODULE AuthControllerProofs ------------------------
(* The key store, the decisions of the authentication, the answers of the   *)
(* handlers and the import of a dump, for every number of clients, of keys, *)
(* of starts and for every set of calls.                                    *)
EXTENDS AuthController, TLAPS, WellFoundedInduction

----------------------------------------------------------------------------
(* Actions and patterns. *)

\* The table of put_api_key gives an action what the key's own actions say of it.
LEMMA ActionsCover ==
  ASSUME NEW a \in Action, NEW action \in Action, action.op # "*"
  PROVE  action \in ActionsOf(a) <=> a \in {All, action} \/ (a.op = "*" /\ a.group = action.group)
<1>1. CASE a = All
  BY <1>1 DEF ActionsOf
<1>2. CASE a # All /\ a.op = "*"
  <2>1. a.group \in StarGroups /\ a = Op(a.group, "*")
    BY <1>2 DEF Action, Op, Ops, All, DocumentsOps, IndexesOps, SettingsOps, DumpsOps,
              TasksOps, StatsOps, MetricsOps, KeysOps, StarGroups
  <2>2. action \in GroupOps[a.group] <=> a.group = action.group
    BY <2>1 DEF GroupOps, Action, Op, Ops, All, DocumentsOps, IndexesOps, SettingsOps, DumpsOps,
              TasksOps, StatsOps, MetricsOps, KeysOps, StarGroups
  <2> QED
    BY <1>2, <2>1, <2>2 DEF ActionsOf, Op
<1>3. CASE a # All /\ a.op # "*"
  BY <1>3 DEF ActionsOf
<1> QED
  BY <1>1, <1>2, <1>3

\* The expansion of a known action has known actions only.
LEMMA ActionsKnown ==
  ASSUME NEW a \in Action
  PROVE  ActionsOf(a) \subseteq Action
<1>1. CASE a # All /\ a.op = "*"
  <2>1. a.group \in StarGroups
    BY <1>1 DEF Action, Op, Ops, All, DocumentsOps, IndexesOps, SettingsOps, DumpsOps,
              TasksOps, StatsOps, MetricsOps, KeysOps, StarGroups
  <2>2. GroupOps[a.group] \subseteq Action
    BY <2>1 DEF GroupOps, StarGroups, Action
  <2> QED
    BY <1>1, <2>2 DEF ActionsOf
<1> QED
  BY <1>1 DEF ActionsOf

\* The actions on keys are those of the group "keys".
LEMMA KeysGroup ==
  ASSUME NEW action \in Action
  PROVE  is_keys_action(action) <=> action.group = "keys"
BY DEF is_keys_action, Action, Op, Ops, All, DocumentsOps, IndexesOps, SettingsOps, DumpsOps,
       TasksOps, StatsOps, MetricsOps, KeysOps, StarGroups

\* An operator of SequencesExt, letter by letter.
LEMMA PrefixLetters ==
  ASSUME NEW S, NEW T, NEW s \in Seq(S), NEW t \in Seq(T)
  PROVE  IsPrefix(s, t) <=> Len(s) <= Len(t) /\ \A k \in 1 .. Len(s) : s[k] = t[k]
<1>1. CASE Len(s) <= Len(t)
  <2> DEFINE a == SubSeq(s, 1, Len(s))
             b == SubSeq(t, 1, Len(s))
  <2>1. /\ a = [k \in 1 .. Len(s) |-> s[k]]
        /\ b = [k \in 1 .. Len(s) |-> t[k]]
    BY <1>1
  <2>2. a = b <=> \A k \in 1 .. Len(s) : s[k] = t[k]
    BY <2>1
  <2> QED
    BY <1>1, <2>2 DEF IsPrefix
<1>2. CASE ~(Len(s) <= Len(t))
  BY <1>2 DEF IsPrefix
<1> QED
  BY <1>1, <1>2

\* The pattern "*" matches every index.
LEMMA AllMatches ==
  ASSUME NEW i \in IndexUids
  PROVE  matches_str(AllIndexes, i)
<1>1. i \in Seq({i[k] : k \in DOMAIN i}) /\ <<>> \in Seq({})
  BY IndexUidsAssumption
<1>2. IsPrefix(<<>>, i)
  <2>1. Len(<<>>) = 0 /\ Len(i) \in Nat
    BY <1>1
  <2>2. 1 .. Len(<<>>) = {}
    BY <2>1
  <2> HIDE IndexUidsAssumption
  <2>3. Len(<<>>) <= Len(i)
    BY <2>1
  <2> QED
    BY <1>1, <2>2, <2>3, PrefixLetters
<1> QED
  BY <1>2 DEF matches_str, AllIndexes, Pattern

----------------------------------------------------------------------------
(* The lookups of is_key_authorized. *)

\* Every entry of a key carries the date of the key.
LEMMA FoundDate ==
  ASSUME NEW d, NEW entries, \A e \in entries : e.exp = d
  PROVE  Found(entries) = IF entries = {} THEN {} ELSE {d}
BY DEF Found

\* What the entries of a key say of an action: the lookups find its date, or nothing.
LEMMA LookupsExact ==
  ASSUME NEW u, NEW key, IsKey(key), NEW store, {e \in store : e.uid = u} = EntriesOf(u, key),
         NEW action \in Action, action.op # "*", NEW index \in IndexUids \cup {None}, NEW time
  PROVE  NotExpired(get_expiration_date(store, u, action, None),
                    IndexedExpiration(store, u, action, index), time)
         <=> /\ Covers(key, action)
             /\ IF index = None THEN key.indexes # {}
                ELSE \E p \in key.indexes : matches_str(p, index)
             /\ key.expires_at # None => time < key.expires_at
<1> DEFINE d == key.expires_at
           actions == UNION {ActionsOf(a) : a \in key.actions}
           whole == \E p \in key.indexes : matches_all(p)
           indexes == IF whole THEN {None} ELSE key.indexes
           mine == EntriesFor(store, u, action)
           found == get_expiration_date(store, u, action, None)
           indexed == IndexedExpiration(store, u, action, index)
<1>1. action \in actions <=> Covers(key, action)
  BY ActionsCover DEF IsKey, Covers
<1>2. mine = {Entry(u, action, i, d) : i \in {j \in indexes : action \in actions}}
  <2>1. mine = {e \in EntriesOf(u, key) : e.action = action}
    BY DEF EntriesFor
  <2>2. EntriesOf(u, key) = {Entry(u, a, i, d) : a \in actions, i \in indexes}
    BY DEF EntriesOf
  <2> QED
    BY <2>1, <2>2 DEF Entry
<1>3. \A e \in mine : e.exp = d
  BY <1>2 DEF Entry
<1>4. \A e : e \in mine <=> action \in actions /\ \E i \in indexes : e = Entry(u, action, i, d)
  <2> HIDE DEF mine, actions, indexes
  <2> QED
    BY <1>2
<1>5. None \notin key.indexes
  BY DEF IsKey, IsPattern
<1>6. found = IF action \in actions /\ whole THEN {d} ELSE {}
  <2> DEFINE F == {e \in mine : e.index = None}
  <2>1. found = Found(F)
    BY DEF get_expiration_date
  <2>2. F # {} <=> action \in actions /\ whole
    <3> HIDE DEF mine, actions
    <3>1. \A i : Entry(u, action, i, d).index = i
      BY DEF Entry
    <3>2. F # {} <=> action \in actions /\ None \in indexes
      <4> HIDE DEF indexes
      <4> QED
        BY <1>4, <3>1
    <3> QED
      BY <1>5, <3>2
  <2>3. \A e \in F : e.exp = d
    BY <1>3
  <2> HIDE DEF F, d, actions, whole
  <2> QED
    BY <2>1, <2>2, <2>3, FoundDate
<1>7. CASE index = None
  <2>1. indexed = Found(mine)
    BY <1>7 DEF IndexedExpiration, prefix_first_expiration_date
  <2>2. mine # {} <=> action \in actions /\ key.indexes # {}
    BY <1>2
  <2>3. indexed = IF action \in actions /\ key.indexes # {} THEN {d} ELSE {}
    <3> HIDE DEF mine, d, actions, indexed
    <3> QED
      BY <2>1, <2>2, <1>3, FoundDate
  <2>4. whole => key.indexes # {}
    OBVIOUS
  <2>5. NotExpired(found, indexed, time) <=>
          action \in actions /\ key.indexes # {} /\ (d # None => time < d)
    <3> HIDE DEF found, indexed, actions, whole
    <3> QED
      BY <1>6, <2>3, <2>4 DEF NotExpired
  <2> QED
    BY <1>1, <1>7, <2>5
<1>8. CASE index # None
  <2> DEFINE G == {e \in mine : e.index # None /\ matches_str(e.index, index)}
             some == \E p \in key.indexes : matches_str(p, index)
  <2>1. indexed = Found(G)
    BY <1>8 DEF IndexedExpiration, get_expiration_date
  <2>2. G # {} <=> action \in actions /\ ~whole /\ some
    <3> HIDE DEF mine, actions
    <3>1. \A i : Entry(u, action, i, d).index = i
      BY DEF Entry
    <3>2. G # {} <=> action \in actions /\ \E i \in indexes : i # None /\ matches_str(i, index)
      <4> HIDE DEF indexes
      <4> QED
        BY <1>4, <3>1
    <3> QED
      BY <1>5, <3>2
  <2>3. \A e \in G : e.exp = d
    BY <1>3
  <2>4. indexed = IF action \in actions /\ ~whole /\ some THEN {d} ELSE {}
    <3> HIDE DEF G, d, actions, indexed, whole, some
    <3> QED
      BY <2>1, <2>2, <2>3, FoundDate
  <2>5. whole => some
    BY <1>8, AllMatches DEF matches_all
  <2>6. NotExpired(found, indexed, time) <=>
          action \in actions /\ some /\ (d # None => time < d)
    <3> HIDE DEF found, indexed, actions, whole, some
    <3> QED
      BY <1>6, <2>4, <2>5 DEF NotExpired
  <2> QED
    BY <1>1, <1>8, <2>6
<1> QED
  BY <1>7, <1>8

----------------------------------------------------------------------------
(* The rules of a tenant token. *)

\* The rank of a pattern in RulesFilter.
Rank(p) == (IF is_exact(p) THEN 1000 ELSE 0) + PatternLen(p)

\* Of the patterns that match an index the one of greatest rank is the narrowest.
LEMMA GreatestIsNarrowest ==
  ASSUME NEW i \in IndexUids, NEW p, IsPattern(p), NEW q, IsPattern(q),
         matches_str(p, i), matches_str(q, i), Rank(p) >= Rank(q)
  PROVE  Reach(p) \subseteq Reach(q)
<1> DEFINE P == {p.text[k] : k \in DOMAIN p.text}
           Q == {q.text[k] : k \in DOMAIN q.text}
           I == {i[k] : k \in DOMAIN i}
<1>1. p.text \in Seq(P) /\ q.text \in Seq(Q) /\ i \in Seq(I)
  BY IndexUidsAssumption DEF IsPattern
<1>2. Len(p.text) \in Nat /\ Len(q.text) \in Nat /\ Len(i) \in Nat
  BY <1>1
<1>3. p.star \in BOOLEAN /\ q.star \in BOOLEAN
  BY DEF IsPattern
<1> HIDE DEF P, Q, I
<1>4. CASE ~p.star
  BY <1>4 DEF Reach, matches_str
<1>5. CASE p.star
  <2>1. /\ Len(p.text) <= Len(i) /\ \A k \in 1 .. Len(p.text) : p.text[k] = i[k]
    BY <1>1, <1>5, PrefixLetters DEF matches_str
  <2>2. q.star
    <3>1. CASE ~q.star
      <4>1. q.text = i
        BY <3>1 DEF matches_str
      <4>2. Rank(q) = 1000 + Len(i) /\ Rank(p) = Len(p.text) + 1
        BY <1>2, <1>5, <3>1, <4>1 DEF Rank, is_exact, PatternLen
      <4> QED
        BY <1>2, <2>1, <4>2
    <3> QED
      BY <1>3, <3>1
  <2>3. /\ Len(q.text) <= Len(i) /\ \A k \in 1 .. Len(q.text) : q.text[k] = i[k]
    BY <1>1, <2>2, PrefixLetters DEF matches_str
  <2>4. Len(q.text) <= Len(p.text)
    BY <1>2, <1>5, <2>2 DEF Rank, is_exact, PatternLen
  <2> SUFFICES ASSUME NEW j \in IndexUids, matches_str(p, j)
               PROVE  matches_str(q, j)
    BY DEF Reach
  <2> DEFINE J == {j[k] : k \in DOMAIN j}
  <2>5. j \in Seq(J) /\ Len(j) \in Nat
    BY IndexUidsAssumption
  <2> HIDE DEF J
  <2>6. Len(p.text) <= Len(j) /\ \A k \in 1 .. Len(p.text) : p.text[k] = j[k]
    BY <1>1, <1>5, <2>5, PrefixLetters DEF matches_str
  <2>7. Len(q.text) <= Len(j)
    BY <1>2, <2>4, <2>5, <2>6
  <2>8. \A k \in 1 .. Len(q.text) : q.text[k] = j[k]
    BY <1>2, <2>1, <2>3, <2>4, <2>6
  <2>9. IsPrefix(q.text, j)
    BY <1>1, <2>5, <2>7, <2>8, PrefixLetters
  <2> QED
    BY <2>2, <2>9 DEF matches_str
<1> QED
  BY <1>3, <1>4, <1>5

\* A set of patterns that match an index has one of greatest rank: ranks are bounded by the name.
LEMMA GreatestExists ==
  ASSUME NEW i \in IndexUids, NEW M, M # {}, \A p \in M : IsPattern(p) /\ matches_str(p, i)
  PROVE  \E p \in M : \A q \in M : Rank(p) >= Rank(q)
<1> DEFINE bound == 1001 + Len(i)
           gaps == {bound - Rank(p) : p \in M}
<1>1. i \in Seq({i[k] : k \in DOMAIN i})
  BY IndexUidsAssumption
<1>2. Len(i) \in Nat
  BY <1>1
<1>3. \A p \in M : Rank(p) \in Nat /\ Rank(p) <= bound
  <2> TAKE p \in M
  <2>1. p.text \in Seq({p.text[k] : k \in DOMAIN p.text}) /\ p.star \in BOOLEAN
    BY DEF IsPattern
  <2>2. Len(p.text) \in Nat
    BY <2>1
  <2>3. Len(p.text) <= Len(i)
    <3>1. CASE p.star
      BY <1>1, <2>1, <3>1, PrefixLetters DEF matches_str
    <3>2. CASE ~p.star
      BY <1>2, <3>2 DEF matches_str
    <3> QED
      BY <2>1, <3>1, <3>2
  <2>4. CASE p.star
    <3>1. Rank(p) = 0 + (Len(p.text) + 1)
      BY <2>4 DEF Rank, is_exact, PatternLen
    <3> QED
      BY <1>2, <2>2, <2>3, <3>1
  <2>5. CASE ~p.star
    <3>1. Rank(p) = 1000 + (Len(p.text) + 0)
      BY <2>5 DEF Rank, is_exact, PatternLen
    <3> QED
      BY <1>2, <2>2, <2>3, <3>1
  <2> QED
    BY <2>1, <2>4, <2>5
<1>4. gaps \subseteq Nat /\ gaps # {}
  BY <1>2, <1>3
<1>5. PICK g \in gaps : \A h \in gaps : ~(<<h, g>> \in OpToRel(<, Nat))
  BY <1>4, NatLessThanWellFounded, WFMin
<1>6. \A h \in gaps : ~(h < g)
  <2>1. \A x, y \in Nat : x < y => <<x, y>> \in OpToRel(<, Nat)
    BY DEF OpToRel
  <2> QED
    BY <1>4, <1>5, <2>1
<1>7. \A h \in gaps : g <= h
  <2> HIDE DEF gaps
  <2>1. \A h \in gaps : h \in Nat /\ g \in Nat /\ ~(h < g)
    BY <1>4, <1>6
  <2> QED
    BY <2>1
<1>8. PICK p \in M : g = bound - Rank(p)
  OBVIOUS
<1>9. \A q \in M : bound - Rank(p) <= bound - Rank(q)
  BY <1>7, <1>8
<1> QED
  BY <1>2, <1>3, <1>9

\* get_index_search_rules chooses the rule of the narrowest pattern.
LEMMA NarrowestChosen ==
  ASSUME NEW rules, \A p \in DOMAIN rules.rules : IsPattern(p), NEW i \in IndexUids,
         RulesAuthorize(rules, i)
  PROVE  \E p \in DOMAIN rules.rules :
           /\ matches_str(p, i)
           /\ RulesFilter(rules, i) = rules.rules[p]
           /\ \A q \in DOMAIN rules.rules : matches_str(q, i) => Reach(p) \subseteq Reach(q)
<1> DEFINE M == {p \in DOMAIN rules.rules : matches_str(p, i)}
           p == CHOOSE p \in M : \A q \in M : Rank(p) >= Rank(q)
<1>1. M # {}
  BY DEF RulesAuthorize
<1>2. \E r \in M : \A q \in M : Rank(r) >= Rank(q)
  <2> HIDE DEF M
  <2>1. \A r \in M : IsPattern(r) /\ matches_str(r, i)
    BY DEF M
  <2> QED
    BY <1>1, <2>1, GreatestExists
<1>3. p \in M /\ \A q \in M : Rank(p) >= Rank(q)
  <2> HIDE DEF M
  <2> QED
    BY <1>2
<1>4. RulesFilter(rules, i) = rules.rules[p]
  BY <1>1 DEF RulesFilter, Rank
<1> HIDE DEF p
<1>5. \A q \in DOMAIN rules.rules : matches_str(q, i) => Reach(p) \subseteq Reach(q)
  BY <1>3, GreatestIsNarrowest
<1> QED
  BY <1>3, <1>4, <1>5

----------------------------------------------------------------------------
(* The inductive invariant. *)

\* The two databases of the store say the same, of keys that a request or a dump can bring.
Stored ==
  /\ keys = [u \in Uids |-> keys[u]]
  /\ \A u \in KeysThere : IsKey(keys[u]) /\ {e \in inverted : e.uid = u} = EntriesOf(u, keys[u])
  /\ \A e \in inverted : e.uid \in Uids /\ e.action \in Action

\* The start-up: what it has decided, done and has left to do.
Started ==
  /\ server = [phase |-> server.phase, master |-> server.master, options |-> server.options,
               import |-> server.import, todo |-> server.todo, starts |-> server.starts]
  /\ server.phase \in Phases /\ server.starts \in 0 .. MaxStarts /\ server.todo \subseteq Uids
  /\ disk = [exists |-> disk.exists, version |-> disk.version, data |-> disk.data]
  /\ disk.version => disk.exists
  /\ server.phase \notin {"down", "openAuth"} => disk.exists
  /\ server.phase # "down" =>
       /\ server.import => DumpKeys # None
       /\ server.options.import /\ ~server.options.ignoreIfDbExists /\ DumpKeys # None => server.import
  /\ server.phase \in {"import", "insert"} => server.import
  /\ server.phase = "insert" =>
       /\ server.todo \subseteq DOMAIN DumpKeys
       /\ \A u \in Uids : keys[u] = IF u \in DOMAIN DumpKeys \ server.todo THEN DumpKeys[u] ELSE None
  /\ server.phase = "up" /\ server.import => disk.data = "full"
  /\ used \subseteq GeneratedUids /\ now \in 0 .. MaxTime

\* A request that is neither waited for nor done with.
Shape(r) ==
  r = [pc |-> r.pc, call |-> r.call, stable |-> r.stable, uid |-> r.uid, rules |-> r.rules,
       key |-> r.key, all |-> r.all, creation |-> r.creation, filter |-> r.filter,
       write |-> r.write, reply |-> r.reply]

\* A request of other fields is the same one but for them.
SameFields(s, r, fields) ==
  /\ Shape(s)
  /\ "pc" \notin fields => s.pc = r.pc
  /\ s.call = r.call
  /\ "stable" \notin fields => s.stable = r.stable
  /\ "uid" \notin fields => s.uid = r.uid
  /\ s.rules = r.rules
  /\ "key" \notin fields => s.key = r.key
  /\ "all" \notin fields => s.all = r.all
  /\ "creation" \notin fields => s.creation = r.creation
  /\ "filter" \notin fields => s.filter = r.filter
  /\ "write" \notin fields => s.write = r.write
  /\ "reply" \notin fields => s.reply = r.reply

\* The token of a request stands for the key it looks up.
Behind(r) ==
  LET t == r.call.token
  IN  /\ server.master # None /\ ~IsMasterKey(t, r.call.action) /\ r.uid \in Uids
      /\ \/ t.type = "key" /\ t.secret = Secret(r.uid) /\ r.rules = None
         \/ /\ t.type = "tenant" /\ r.call.action = Search /\ t.secret = Secret(t.uid)
            /\ r.uid = t.uid /\ r.rules = t.rules
            /\ r.stable /\ t.exp # None => now <= t.exp

ReadPcs == {"creation_all", "creation_indexed", "action_all", "action_indexed"}

\* What a request on its way has read is still so, if nothing moved.
ReadSoFar(r) ==
  /\ r.pc = "lookup" =>
       /\ ~IsMasterKey(r.call.token, r.call.action) /\ r.rules = None
       /\ r.call.action # Search \/ r.call.token.type # "tenant"
  /\ r.pc \in {"get_key"} \cup ReadPcs => Behind(r)
  /\ r.stable =>
       /\ r.pc \in ReadPcs => keys[r.uid] # None /\ r.key = keys[r.uid]
       /\ r.pc = "creation_indexed" =>
            r.all = get_expiration_date(inverted, r.uid, IndexesAdd, None)
       /\ r.pc \in {"action_all", "action_indexed"} =>
            (r.creation <=> Allows(keys[r.uid], IndexesAdd, None))
       /\ r.pc = "action_indexed" =>
            r.all = get_expiration_date(inverted, r.uid, r.call.action, None)

\* The filter that a granted request was given.
Granted(r) ==
  \/ /\ IsMasterKey(r.call.token, r.call.action)
     /\ r.filter = DefaultFilter /\ r.rules = None
  \/ /\ Behind(r)
     /\ \E patterns : r.filter = AuthFilter(r.rules, SetRules(patterns), r.creation)
     /\ r.stable =>
          /\ keys[r.uid] # None
          /\ r.filter = AuthFilter(r.rules, SetRules(keys[r.uid].indexes), r.creation)
          /\ r.creation <=> Allows(keys[r.uid], IndexesAdd, None)
          /\ Allows(keys[r.uid], r.call.action, r.call.index)

Decided(r) ==
  /\ r.pc = "handler" => Granted(r)
  /\ r.pc = "handler" /\ r.stable => Entitled(r.call)
  /\ r.pc = "refused" /\ r.stable => ~Entitled(r.call)
  /\ r.pc = "put" => r.call.route \in {"create", "update"} /\ IsKey(r.write) /\ r.rules = None
  /\ AnswerTrue(r)
  /\ NarrowTrue(r)

InProgress(c, r) ==
  /\ Shape(r) /\ r.pc \in Pcs \ {"idle"} /\ r.call \in Calls[c] /\ r.stable \in BOOLEAN
  /\ r.creation \in BOOLEAN
  /\ ReadSoFar(r) /\ Decided(r)

Requested(c, r) == r = NoClient \/ (server.phase = "up" /\ InProgress(c, r))

AuthInv ==
  /\ Stored /\ Started
  /\ clients = [c \in Clients |-> clients[c]]
  /\ \A c \in Clients : Requested(c, clients[c])

----------------------------------------------------------------------------
(* The store. *)

\* The entries of a key are of known actions.
LEMMA EntriesKnown ==
  ASSUME NEW u, NEW key, IsKey(key)
  PROVE  \A e \in EntriesOf(u, key) : e.uid = u /\ e.action \in Action
<1> DEFINE indexes == IF \E p \in key.indexes : matches_all(p) THEN {None} ELSE key.indexes
<1>1. UNION {ActionsOf(a) : a \in key.actions} \subseteq Action
  BY ActionsKnown DEF IsKey
<1>2. \A e \in EntriesOf(u, key) :
        \E a \in UNION {ActionsOf(b) : b \in key.actions} : \E i \in indexes :
          e = Entry(u, a, i, key.expires_at)
  BY DEF EntriesOf
<1> HIDE DEF indexes
<1>3. \A a, i, d : Entry(u, a, i, d).uid = u /\ Entry(u, a, i, d).action = a
  BY DEF Entry
<1> QED
  BY <1>1, <1>2, <1>3

\* put_api_key keeps the store.
LEMMA PutStored ==
  ASSUME Stored, NEW uid \in Uids, NEW key, IsKey(key), put_api_key(uid, key)
  PROVE  Stored'
<1>1. keys' = [u \in Uids |-> IF u = uid THEN key ELSE keys[u]]
  BY DEF Stored, put_api_key
<1>2. inverted' = {e \in inverted : e.uid # uid} \cup EntriesOf(uid, key)
  BY DEF put_api_key
<1>3. \A e \in EntriesOf(uid, key) : e.uid = uid /\ e.action \in Action
  BY EntriesKnown
<1>4. \A e \in inverted : e.uid \in Uids /\ e.action \in Action
  BY DEF Stored
<1>5. {e \in inverted' : e.uid = uid} = EntriesOf(uid, key)
  BY <1>2, <1>3
<1>6. \A u \in Uids \ {uid} : {e \in inverted' : e.uid = u} = {e \in inverted : e.uid = u}
  BY <1>2, <1>3
<1>7. \A u \in KeysThere' : IsKey(keys'[u]) /\ {e \in inverted' : e.uid = u} = EntriesOf(u, keys'[u])
  <2> TAKE u \in KeysThere'
  <2>1. CASE u = uid
    BY <1>1, <1>5, <2>1
  <2>2. CASE u # uid
    <3>1. u \in KeysThere /\ keys'[u] = keys[u] /\ u \in Uids \ {uid}
      BY <1>1, <2>2 DEF KeysThere
    <3> QED
      BY <1>6, <3>1 DEF Stored
  <2> QED
    BY <2>1, <2>2
<1>8. \A e \in inverted' : e.uid \in Uids /\ e.action \in Action
  BY <1>2, <1>3, <1>4
<1>9. keys' = [u \in Uids |-> keys'[u]]
  BY <1>1
<1> QED
  BY <1>7, <1>8, <1>9 DEF Stored, KeysThere

\* Deleting a key removes it and its entries.
LEMMA DeleteStored ==
  ASSUME Stored, NEW uid \in Uids, keys' = [keys EXCEPT ![uid] = None],
         inverted' = {e \in inverted : e.uid # uid}
  PROVE  Stored'
<1>1. keys' = [u \in Uids |-> IF u = uid THEN None ELSE keys[u]]
  BY DEF Stored
<1>2. \A u \in KeysThere' : IsKey(keys'[u]) /\ {e \in inverted' : e.uid = u} = EntriesOf(u, keys'[u])
  <2> TAKE u \in KeysThere'
  <2>1. u \in KeysThere /\ keys'[u] = keys[u] /\ u # uid
    BY <1>1 DEF KeysThere
  <2>2. {e \in inverted' : e.uid = u} = {e \in inverted : e.uid = u}
    BY <2>1
  <2> QED
    BY <2>1, <2>2 DEF Stored
<1>3. keys' = [u \in Uids |-> keys'[u]]
  BY <1>1
<1> QED
  BY <1>2, <1>3 DEF Stored, KeysThere

\* A store without keys has nothing to say.
LEMMA EmptyStored ==
  ASSUME Stored, keys' = [u \in Uids |-> None], inverted' \in {inverted, {}}
  PROVE  Stored'
<1>1. KeysThere' = {}
  BY DEF KeysThere
<1> QED
  BY <1>1 DEF Stored

\* A store that is not written keeps.
LEMMA SameStored ==
  ASSUME Stored, UNCHANGED <<keys, inverted>>
  PROVE  Stored'
BY DEF Stored, KeysThere

\* The default keys are keys.
LEMMA DefaultKeys == IsKey(default_admin) /\ IsKey(default_search)
<1>1. All \in Action /\ Search \in Action
  BY DEF Action, Search
<1>2. <<>> \in Seq({<<>>[k] : k \in DOMAIN <<>>})
  OBVIOUS
<1>3. IsPattern(AllIndexes)
  <2>1. AllIndexes.text = <<>> /\ AllIndexes.star = TRUE /\ AllIndexes = Pattern(<<>>, TRUE)
    BY DEF AllIndexes, Pattern
  <2> QED
    BY <1>2, <2>1, CallsAssumption DEF IsPattern
<1> QED
  BY <1>1, <1>3 DEF IsKey, default_admin, default_search, NewKey

----------------------------------------------------------------------------
(* The start-up. *)

\* No request is under way while the server is not up.
LEMMA NobodyThere ==
  ASSUME AuthInv, server.phase # "up"
  PROVE  \A c \in Clients : clients[c] = NoClient
BY DEF AuthInv, Requested

\* The first state.
LEMMA AuthInit == Init => AuthInv
<1> SUFFICES ASSUME Init PROVE AuthInv
  OBVIOUS
<1>1. Stored
  <2>1. KeysThere = {}
    BY DEF Init, KeysThere
  <2> QED
    BY <2>1 DEF Init, Stored
<1>2. Started
  BY AuthAssumption DEF Init, Started, NoDisk, Phases
<1>3. clients = [c \in Clients |-> clients[c]] /\ \A c \in Clients : Requested(c, clients[c])
  BY DEF Init, Requested
<1> QED
  BY <1>1, <1>2, <1>3 DEF AuthInv

\* A step of the start-up that keeps the clients waiting.
LEMMA StillNobody ==
  ASSUME AuthInv, server.phase # "up", UNCHANGED clients, Stored', Started'
  PROVE  AuthInv'
BY NobodyThere DEF AuthInv, Requested

\* A start decides to import, to open or to stop; the decision to import is remembered.
LEMMA StartKeeps ==
  ASSUME AuthInv, NEW mk \in MasterKeys, NEW o \in Options, Start(mk, o)
  PROVE  AuthInv'
<1>1. Stored'
  BY SameStored DEF AuthInv, Start
<1>2. Started'
  <2>1. o.import /\ ~o.ignoreIfDbExists /\ DumpKeys # None =>
          StartChecks(o) = "openAndImport" \/ StartChecks(o) = "exit"
    BY DEF StartChecks
  <2>2. StartChecks(o) = "openAndImport" => DumpKeys # None
    BY DEF StartChecks
  <2>3. server' = [phase |-> "openAuth", master |-> mk, options |-> o,
                   import |-> StartChecks(o) = "openAndImport", todo |-> {},
                   starts |-> server.starts + 1]
    BY DEF Start
  <2>4. server.starts + 1 \in 0 .. MaxStarts
    BY AuthAssumption DEF Start, AuthInv, Started
  <2>5. StartChecks(o) # "exit" /\ UNCHANGED <<keys, inverted, disk, used, now>>
    BY DEF Start
  <2> DEFINE imports == StartChecks(o) = "openAndImport"
  <2>6. imports => DumpKeys # None
    BY <2>2
  <2>7. o.import /\ ~o.ignoreIfDbExists /\ DumpKeys # None => imports
    BY <2>1, <2>5
  <2>8. server' = [phase |-> "openAuth", master |-> mk, options |-> o, import |-> imports,
                   todo |-> {}, starts |-> server.starts + 1]
    BY <2>3
  <2> HIDE DEF imports
  <2> QED
    BY <2>4, <2>5, <2>6, <2>7, <2>8 DEF AuthInv, Started, Phases
<1> QED
  BY <1>1, <1>2, StillNobody DEF Start

\* Opening the store creates the directory.
LEMMA OpenAuthKeeps == AuthInv /\ OpenAuth => AuthInv'
<1> SUFFICES ASSUME AuthInv, OpenAuth PROVE AuthInv'
  OBVIOUS
<1>1. Stored'
  BY SameStored DEF AuthInv, OpenAuth
<1>2. Started'
  BY DEF AuthInv, Started, OpenAuth, GoTo, Phases
<1> QED
  BY <1>1, <1>2, StillNobody DEF OpenAuth

\* A default key is put under a uid that was drawn for it.
LEMMA GenerateKeeps ==
  ASSUME AuthInv, NEW phase \in {"admin", "search"}, NEW key, IsKey(key),
         NEW next \in {"search", "openScheduler"}, GenerateDefaultKey(phase, key, next)
  PROVE  AuthInv'
<1> DEFINE uid == CHOOSE u \in GeneratedUids \ used : TRUE
<1>1. uid \in GeneratedUids /\ uid \in Uids
  BY AuthAssumption DEF GenerateDefaultKey
<1>2. used' = used \cup {uid} /\ put_api_key(uid, key)
  BY DEF GenerateDefaultKey
<1> HIDE DEF uid
<1>3. Stored'
  BY <1>1, <1>2, PutStored DEF AuthInv
<1>4. Started'
  BY <1>1, <1>2 DEF AuthInv, Started, GenerateDefaultKey, GoTo, Phases
<1> QED
  BY <1>3, <1>4, StillNobody DEF GenerateDefaultKey

\* Opening the scheduler writes VERSION, in a directory that exists.
LEMMA OpenSchedulerKeeps == AuthInv /\ OpenScheduler => AuthInv'
<1> SUFFICES ASSUME AuthInv, OpenScheduler PROVE AuthInv'
  OBVIOUS
<1>1. Stored'
  BY SameStored DEF AuthInv, OpenScheduler
<1>2. Started'
  BY DEF AuthInv, Started, OpenScheduler, GoTo, Phases
<1> QED
  BY <1>1, <1>2, StillNobody DEF OpenScheduler

\* The keys are cleared before the import: every key of the dump is to be inserted.
LEMMA ImportKeysKeeps == AuthInv /\ import_dump_keys => AuthInv'
<1> SUFFICES ASSUME AuthInv, import_dump_keys PROVE AuthInv'
  OBVIOUS
<1>1. Stored'
  BY EmptyStored DEF AuthInv, import_dump_keys, delete_all_keys
<1>2. DOMAIN DumpKeys \subseteq Uids
  BY CallsAssumption DEF AuthInv, Started, import_dump_keys
<1>3. Started'
  BY <1>2 DEF AuthInv, Started, import_dump_keys, delete_all_keys, Phases
<1> QED
  BY <1>1, <1>3, StillNobody DEF import_dump_keys

\* One key of the dump is inserted, and no longer to be.
LEMMA InsertKeyKeeps == AuthInv /\ raw_insert_key => AuthInv'
<1> SUFFICES ASSUME AuthInv, raw_insert_key PROVE AuthInv'
  OBVIOUS
<1>1. PICK uid \in server.todo : /\ put_api_key(uid, DumpKeys[uid])
                                 /\ server' = [server EXCEPT !.todo = @ \ {uid}]
  BY DEF raw_insert_key
<1>2. uid \in Uids /\ uid \in DOMAIN DumpKeys /\ IsKey(DumpKeys[uid])
  BY <1>1, CallsAssumption DEF AuthInv, Started, raw_insert_key
<1>3. Stored'
  BY <1>1, <1>2, PutStored DEF AuthInv
<1>4. Started'
  <2>1. \A u \in Uids : keys'[u] =
          IF u \in DOMAIN DumpKeys \ (server.todo \ {uid}) THEN DumpKeys[u] ELSE None
    BY <1>1, <1>2 DEF AuthInv, Started, Stored, raw_insert_key, put_api_key
  <2> QED
    BY <1>1, <2>1 DEF AuthInv, Started, raw_insert_key, Phases
<1> QED
  BY <1>3, <1>4, StillNobody DEF raw_insert_key

\* The import ends with all of the dump on disk.
LEMMA ImportRestKeeps == AuthInv /\ ImportRest => AuthInv'
<1> SUFFICES ASSUME AuthInv, ImportRest PROVE AuthInv'
  OBVIOUS
<1>1. Stored'
  BY SameStored DEF AuthInv, ImportRest
<1>2. Started'
  BY DEF AuthInv, Started, ImportRest, GoTo, Phases
<1> QED
  BY <1>1, <1>2, StillNobody DEF ImportRest

\* A failed import leaves no database behind.
LEMMA ImportFailsKeeps == AuthInv /\ ImportFails => AuthInv'
<1> SUFFICES ASSUME AuthInv, ImportFails PROVE AuthInv'
  OBVIOUS
<1>1. Stored'
  BY EmptyStored DEF AuthInv, ImportFails, RemoveDb
<1>2. Started'
  BY DEF AuthInv, Started, ImportFails, RemoveDb, GoTo, NoDisk, Phases
<1> QED
  BY <1>1, <1>2, StillNobody DEF ImportFails

\* A start that fails removes the database or leaves what is there.
LEMMA OpenFailsKeeps == AuthInv /\ OpenFails => AuthInv'
<1> SUFFICES ASSUME AuthInv, OpenFails PROVE AuthInv'
  OBVIOUS
<1>1. Stored'
  BY EmptyStored, SameStored DEF AuthInv, OpenFails, RemoveDb
<1>2. Started'
  <2>1. CASE server.import
    BY <2>1 DEF AuthInv, Started, OpenFails, RemoveDb, GoTo, NoDisk, Phases
  <2>2. CASE ~server.import
    BY <2>2 DEF AuthInv, Started, OpenFails, GoTo, Phases
  <2> QED
    BY <2>1, <2>2
<1> QED
  BY <1>1, <1>2, StillNobody DEF OpenFails

\* A crash ends the requests and keeps what was committed.
LEMMA CrashKeeps == AuthInv /\ Crash => AuthInv'
<1> SUFFICES ASSUME AuthInv, Crash PROVE AuthInv'
  OBVIOUS
<1>1. Stored'
  BY SameStored DEF AuthInv, Crash
<1>2. Started'
  BY DEF AuthInv, Started, Crash, GoTo, Phases
<1>3. clients' = [c \in Clients |-> NoClient]
  BY DEF Crash
<1> QED
  BY <1>1, <1>2, <1>3 DEF AuthInv, Requested

----------------------------------------------------------------------------
(* The requests. *)

\* An assignment to one field of a request leaves the others alone.
LEMMA ChangedField ==
  ASSUME NEW r, Shape(r), NEW z
  PROVE  /\ SameFields([r EXCEPT !.pc = z], r, {"pc"}) /\ [r EXCEPT !.pc = z].pc = z
         /\ SameFields([r EXCEPT !.stable = z], r, {"stable"}) /\ [r EXCEPT !.stable = z].stable = z
         /\ SameFields([r EXCEPT !.uid = z], r, {"uid"}) /\ [r EXCEPT !.uid = z].uid = z
         /\ SameFields([r EXCEPT !.key = z], r, {"key"}) /\ [r EXCEPT !.key = z].key = z
         /\ SameFields([r EXCEPT !.all = z], r, {"all"}) /\ [r EXCEPT !.all = z].all = z
         /\ SameFields([r EXCEPT !.creation = z], r, {"creation"}) /\ [r EXCEPT !.creation = z].creation = z
         /\ SameFields([r EXCEPT !.filter = z], r, {"filter"}) /\ [r EXCEPT !.filter = z].filter = z
         /\ SameFields([r EXCEPT !.write = z], r, {"write"}) /\ [r EXCEPT !.write = z].write = z
         /\ SameFields([r EXCEPT !.reply = z], r, {"reply"}) /\ [r EXCEPT !.reply = z].reply = z
<1>1. SameFields([r EXCEPT !.pc = z], r, {"pc"}) /\ [r EXCEPT !.pc = z].pc = z
  <2>1. [r EXCEPT !.pc = z] =
        [pc |-> z, call |-> r.call, stable |-> r.stable, uid |-> r.uid, rules |-> r.rules,
         key |-> r.key, all |-> r.all, creation |-> r.creation, filter |-> r.filter,
         write |-> r.write, reply |-> r.reply]
    BY DEF Shape
  <2> QED
    BY <2>1 DEF Shape, SameFields
<1>2. SameFields([r EXCEPT !.stable = z], r, {"stable"}) /\ [r EXCEPT !.stable = z].stable = z
  <2>1. [r EXCEPT !.stable = z] =
        [pc |-> r.pc, call |-> r.call, stable |-> z, uid |-> r.uid, rules |-> r.rules,
         key |-> r.key, all |-> r.all, creation |-> r.creation, filter |-> r.filter,
         write |-> r.write, reply |-> r.reply]
    BY DEF Shape
  <2> QED
    BY <2>1 DEF Shape, SameFields
<1>3. SameFields([r EXCEPT !.uid = z], r, {"uid"}) /\ [r EXCEPT !.uid = z].uid = z
  <2>1. [r EXCEPT !.uid = z] =
        [pc |-> r.pc, call |-> r.call, stable |-> r.stable, uid |-> z, rules |-> r.rules,
         key |-> r.key, all |-> r.all, creation |-> r.creation, filter |-> r.filter,
         write |-> r.write, reply |-> r.reply]
    BY DEF Shape
  <2> QED
    BY <2>1 DEF Shape, SameFields
<1>4. SameFields([r EXCEPT !.key = z], r, {"key"}) /\ [r EXCEPT !.key = z].key = z
  <2>1. [r EXCEPT !.key = z] =
        [pc |-> r.pc, call |-> r.call, stable |-> r.stable, uid |-> r.uid, rules |-> r.rules,
         key |-> z, all |-> r.all, creation |-> r.creation, filter |-> r.filter,
         write |-> r.write, reply |-> r.reply]
    BY DEF Shape
  <2> QED
    BY <2>1 DEF Shape, SameFields
<1>5. SameFields([r EXCEPT !.all = z], r, {"all"}) /\ [r EXCEPT !.all = z].all = z
  <2>1. [r EXCEPT !.all = z] =
        [pc |-> r.pc, call |-> r.call, stable |-> r.stable, uid |-> r.uid, rules |-> r.rules,
         key |-> r.key, all |-> z, creation |-> r.creation, filter |-> r.filter,
         write |-> r.write, reply |-> r.reply]
    BY DEF Shape
  <2> QED
    BY <2>1 DEF Shape, SameFields
<1>6. SameFields([r EXCEPT !.creation = z], r, {"creation"}) /\ [r EXCEPT !.creation = z].creation = z
  <2>1. [r EXCEPT !.creation = z] =
        [pc |-> r.pc, call |-> r.call, stable |-> r.stable, uid |-> r.uid, rules |-> r.rules,
         key |-> r.key, all |-> r.all, creation |-> z, filter |-> r.filter,
         write |-> r.write, reply |-> r.reply]
    BY DEF Shape
  <2> QED
    BY <2>1 DEF Shape, SameFields
<1>7. SameFields([r EXCEPT !.filter = z], r, {"filter"}) /\ [r EXCEPT !.filter = z].filter = z
  <2>1. [r EXCEPT !.filter = z] =
        [pc |-> r.pc, call |-> r.call, stable |-> r.stable, uid |-> r.uid, rules |-> r.rules,
         key |-> r.key, all |-> r.all, creation |-> r.creation, filter |-> z,
         write |-> r.write, reply |-> r.reply]
    BY DEF Shape
  <2> QED
    BY <2>1 DEF Shape, SameFields
<1>8. SameFields([r EXCEPT !.write = z], r, {"write"}) /\ [r EXCEPT !.write = z].write = z
  <2>1. [r EXCEPT !.write = z] =
        [pc |-> r.pc, call |-> r.call, stable |-> r.stable, uid |-> r.uid, rules |-> r.rules,
         key |-> r.key, all |-> r.all, creation |-> r.creation, filter |-> r.filter,
         write |-> z, reply |-> r.reply]
    BY DEF Shape
  <2> QED
    BY <2>1 DEF Shape, SameFields
<1>9. SameFields([r EXCEPT !.reply = z], r, {"reply"}) /\ [r EXCEPT !.reply = z].reply = z
  <2>1. [r EXCEPT !.reply = z] =
        [pc |-> r.pc, call |-> r.call, stable |-> r.stable, uid |-> r.uid, rules |-> r.rules,
         key |-> r.key, all |-> r.all, creation |-> r.creation, filter |-> r.filter,
         write |-> r.write, reply |-> z]
    BY DEF Shape
  <2> QED
    BY <2>1 DEF Shape, SameFields
<1> QED
  BY <1>1, <1>2, <1>3, <1>4, <1>5, <1>6, <1>7, <1>8, <1>9

\* The same for several fields: the uid that was found.
LEMMA ChangedUid ==
  ASSUME NEW r, Shape(r), NEW w, NEW x
  PROVE  LET s == [r EXCEPT !.pc = w, !.uid = x]
         IN  SameFields(s, r, {"pc", "uid"}) /\ s.pc = w /\ s.uid = x
<1> DEFINE s1 == [r EXCEPT !.pc = w]
           s2 == [s1 EXCEPT !.uid = x]
<1>1. SameFields(s1, r, {"pc"}) /\ s1.pc = w
  BY ChangedField
<1> HIDE DEF s1
<1>2. SameFields(s2, s1, {"uid"}) /\ s2.uid = x
  <2>1. Shape(s1)
    BY <1>1 DEF SameFields
  <2> QED
    BY <2>1, ChangedField
<1>3. SameFields(s2, r, {"pc", "uid"}) /\ s2.pc = w /\ s2.uid = x
  <2> HIDE DEF s2
  <2> QED
    BY <1>1, <1>2 DEF SameFields
<1> QED
  BY <1>3 DEF s1, s2

\* The same for several fields: the key that was read.
LEMMA ChangedKey ==
  ASSUME NEW r, Shape(r), NEW w, NEW x
  PROVE  LET s == [r EXCEPT !.pc = w, !.key = x]
         IN  SameFields(s, r, {"pc", "key"}) /\ s.pc = w /\ s.key = x
<1> DEFINE s1 == [r EXCEPT !.pc = w]
           s2 == [s1 EXCEPT !.key = x]
<1>1. SameFields(s1, r, {"pc"}) /\ s1.pc = w
  BY ChangedField
<1> HIDE DEF s1
<1>2. SameFields(s2, s1, {"key"}) /\ s2.key = x
  <2>1. Shape(s1)
    BY <1>1 DEF SameFields
  <2> QED
    BY <2>1, ChangedField
<1>3. SameFields(s2, r, {"pc", "key"}) /\ s2.pc = w /\ s2.key = x
  <2> HIDE DEF s2
  <2> QED
    BY <1>1, <1>2 DEF SameFields
<1> QED
  BY <1>3 DEF s1, s2

\* The same for several fields: the first lookup.
LEMMA ChangedAll ==
  ASSUME NEW r, Shape(r), NEW w, NEW x
  PROVE  LET s == [r EXCEPT !.pc = w, !.all = x]
         IN  SameFields(s, r, {"pc", "all"}) /\ s.pc = w /\ s.all = x
<1> DEFINE s1 == [r EXCEPT !.pc = w]
           s2 == [s1 EXCEPT !.all = x]
<1>1. SameFields(s1, r, {"pc"}) /\ s1.pc = w
  BY ChangedField
<1> HIDE DEF s1
<1>2. SameFields(s2, s1, {"all"}) /\ s2.all = x
  <2>1. Shape(s1)
    BY <1>1 DEF SameFields
  <2> QED
    BY <2>1, ChangedField
<1>3. SameFields(s2, r, {"pc", "all"}) /\ s2.pc = w /\ s2.all = x
  <2> HIDE DEF s2
  <2> QED
    BY <1>1, <1>2 DEF SameFields
<1> QED
  BY <1>3 DEF s1, s2

\* The same for several fields: the right to create indexes.
LEMMA ChangedCreation ==
  ASSUME NEW r, Shape(r), NEW w, NEW x
  PROVE  LET s == [r EXCEPT !.pc = w, !.creation = x]
         IN  SameFields(s, r, {"pc", "creation"}) /\ s.pc = w /\ s.creation = x
<1> DEFINE s1 == [r EXCEPT !.pc = w]
           s2 == [s1 EXCEPT !.creation = x]
<1>1. SameFields(s1, r, {"pc"}) /\ s1.pc = w
  BY ChangedField
<1> HIDE DEF s1
<1>2. SameFields(s2, s1, {"creation"}) /\ s2.creation = x
  <2>1. Shape(s1)
    BY <1>1 DEF SameFields
  <2> QED
    BY <2>1, ChangedField
<1>3. SameFields(s2, r, {"pc", "creation"}) /\ s2.pc = w /\ s2.creation = x
  <2> HIDE DEF s2
  <2> QED
    BY <1>1, <1>2 DEF SameFields
<1> QED
  BY <1>3 DEF s1, s2

\* The same for several fields: the key to put.
LEMMA ChangedWrite ==
  ASSUME NEW r, Shape(r), NEW w, NEW x
  PROVE  LET s == [r EXCEPT !.pc = w, !.write = x]
         IN  SameFields(s, r, {"pc", "write"}) /\ s.pc = w /\ s.write = x
<1> DEFINE s1 == [r EXCEPT !.pc = w]
           s2 == [s1 EXCEPT !.write = x]
<1>1. SameFields(s1, r, {"pc"}) /\ s1.pc = w
  BY ChangedField
<1> HIDE DEF s1
<1>2. SameFields(s2, s1, {"write"}) /\ s2.write = x
  <2>1. Shape(s1)
    BY <1>1 DEF SameFields
  <2> QED
    BY <2>1, ChangedField
<1>3. SameFields(s2, r, {"pc", "write"}) /\ s2.pc = w /\ s2.write = x
  <2> HIDE DEF s2
  <2> QED
    BY <1>1, <1>2 DEF SameFields
<1> QED
  BY <1>3 DEF s1, s2

\* The same for several fields: the filter that was granted.
LEMMA ChangedFilter ==
  ASSUME NEW r, Shape(r), NEW w, NEW x
  PROVE  LET s == [r EXCEPT !.pc = w, !.filter = x]
         IN  SameFields(s, r, {"pc", "filter"}) /\ s.pc = w /\ s.filter = x
<1> DEFINE s1 == [r EXCEPT !.pc = w]
           s2 == [s1 EXCEPT !.filter = x]
<1>1. SameFields(s1, r, {"pc"}) /\ s1.pc = w
  BY ChangedField
<1> HIDE DEF s1
<1>2. SameFields(s2, s1, {"filter"}) /\ s2.filter = x
  <2>1. Shape(s1)
    BY <1>1 DEF SameFields
  <2> QED
    BY <2>1, ChangedField
<1>3. SameFields(s2, r, {"pc", "filter"}) /\ s2.pc = w /\ s2.filter = x
  <2> HIDE DEF s2
  <2> QED
    BY <1>1, <1>2 DEF SameFields
<1> QED
  BY <1>3 DEF s1, s2

\* The same for several fields: what was read.
LEMMA ChangedReads ==
  ASSUME NEW r, Shape(r), NEW w, NEW x
  PROVE  LET s == [r EXCEPT !.key = w, !.all = x]
         IN  SameFields(s, r, {"key", "all"}) /\ s.key = w /\ s.all = x
<1> DEFINE s1 == [r EXCEPT !.key = w]
           s2 == [s1 EXCEPT !.all = x]
<1>1. SameFields(s1, r, {"key"}) /\ s1.key = w
  BY ChangedField
<1> HIDE DEF s1
<1>2. SameFields(s2, s1, {"all"}) /\ s2.all = x
  <2>1. Shape(s1)
    BY <1>1 DEF SameFields
  <2> QED
    BY <2>1, ChangedField
<1>3. SameFields(s2, r, {"key", "all"}) /\ s2.key = w /\ s2.all = x
  <2> HIDE DEF s2
  <2> QED
    BY <1>1, <1>2 DEF SameFields
<1> QED
  BY <1>3 DEF s1, s2

\* The same for several fields: a refused request.
LEMMA ChangedRefused ==
  ASSUME NEW r, Shape(r), NEW w, NEW x, NEW y
  PROVE  LET s == [r EXCEPT !.pc = w, !.key = x, !.all = y]
         IN  SameFields(s, r, {"pc", "key", "all"}) /\ s.pc = w /\ s.key = x /\ s.all = y
<1> DEFINE s1 == [r EXCEPT !.pc = w]
           s2 == [s1 EXCEPT !.key = x]
           s3 == [s2 EXCEPT !.all = y]
<1>1. SameFields(s1, r, {"pc"}) /\ s1.pc = w
  BY ChangedField
<1> HIDE DEF s1
<1>2. SameFields(s2, s1, {"key"}) /\ s2.key = x
  <2>1. Shape(s1)
    BY <1>1 DEF SameFields
  <2> QED
    BY <2>1, ChangedField
<1> HIDE DEF s2
<1>3. SameFields(s3, s2, {"all"}) /\ s3.all = y
  <2>1. Shape(s2)
    BY <1>2 DEF SameFields
  <2> QED
    BY <2>1, ChangedField
<1>4. SameFields(s3, r, {"pc", "key", "all"}) /\ s3.pc = w /\ s3.key = x /\ s3.all = y
  <2> HIDE DEF s3
  <2> QED
    BY <1>1, <1>2, <1>3 DEF SameFields
<1> QED
  BY <1>4 DEF s1, s2, s3

\* Nothing a request says changes while the store, the server and the clock stand.
LEMMA SameRequest ==
  ASSUME NEW c, NEW r, InProgress(c, r), UNCHANGED <<keys, inverted, server, now>>
  PROVE  InProgress(c, r)'
<1>1. IsMasterKey(r.call.token, r.call.action)' <=> IsMasterKey(r.call.token, r.call.action)
  BY DEF IsMasterKey
<1>2. Behind(r)' <=> Behind(r)
  BY <1>1 DEF Behind, Secret
<1>3. \A k, a, i : Allows(k, a, i)' <=> Allows(k, a, i)
  BY DEF Allows
<1>4. ReadSoFar(r)' <=> ReadSoFar(r)
  BY <1>1, <1>2, <1>3 DEF ReadSoFar
<1>5. Granted(r)' <=> Granted(r)
  BY <1>1, <1>2, <1>3 DEF Granted
<1>6. Entitled(r.call)' <=> Entitled(r.call)
  BY <1>3 DEF Entitled, Secret, KeysThere
<1>7. KeyBehind(r.call)' = KeyBehind(r.call)
  BY DEF KeyBehind, Secret
<1>8. \A i : Visible(r.call, i)' <=> Visible(r.call, i)
  BY <1>7 DEF Visible
<1>9. MayCreate(r.call)' <=> MayCreate(r.call)
  BY <1>7, <1>8 DEF MayCreate
<1>10. AnswerTrue(r)' <=> AnswerTrue(r)
  BY <1>8, <1>9 DEF AnswerTrue
<1>11. NarrowTrue(r)' <=> NarrowTrue(r)
  BY DEF NarrowTrue
<1> QED
  BY <1>4, <1>5, <1>6, <1>10, <1>11 DEF InProgress, Decided

\* A request whose answer was unsettled promises less.
LEMMA UnsettledRequest ==
  ASSUME NEW c, NEW r, InProgress(c, r), UNCHANGED server
  PROVE  InProgress(c, [r EXCEPT !.stable = FALSE])'
<1> DEFINE s == [r EXCEPT !.stable = FALSE]
<1>1. SameFields(s, r, {"stable"}) /\ s.stable = FALSE
  <2>1. Shape(r)
    BY DEF InProgress
  <2> QED
    BY <2>1, ChangedField
<1> HIDE DEF s
<1>2. IsMasterKey(s.call.token, s.call.action)' <=> IsMasterKey(r.call.token, r.call.action)
  BY <1>1 DEF SameFields, IsMasterKey
<1>3. Behind(r) => Behind(s)'
  BY <1>1, <1>2 DEF SameFields, Behind, Secret
<1>4. ReadSoFar(s)'
  BY <1>1, <1>2, <1>3 DEF SameFields, InProgress, ReadSoFar
<1>5. Granted(r) => Granted(s)'
  BY <1>1, <1>2, <1>3 DEF SameFields, Granted
<1>6. AnswerTrue(s)'
  BY <1>1 DEF SameFields, AnswerTrue
<1>7. NarrowTrue(r) => NarrowTrue(s)'
  BY <1>1 DEF SameFields, NarrowTrue
<1>8. Decided(s)'
  BY <1>1, <1>5, <1>6, <1>7 DEF SameFields, InProgress, Decided
<1>9. s.pc \in Pcs \ {"idle"} /\ s.call \in Calls[c] /\ s.creation \in BOOLEAN /\ s.stable \in BOOLEAN
  BY <1>1 DEF SameFields, InProgress
<1>10. InProgress(c, s)'
  BY <1>1, <1>4, <1>8, <1>9 DEF InProgress, Shape, SameFields
<1> QED
  BY <1>10 DEF s

\* A step of one client that reads.
LEMMA ReadStep ==
  ASSUME AuthInv, NEW c \in Clients, server.phase = "up", NEW r, r = NoClient \/ InProgress(c, r),
         clients' = [clients EXCEPT ![c] = r], UNCHANGED <<keys, inverted, disk, server, used, now>>
  PROVE  AuthInv'
<1>1. Stored'
  BY SameStored DEF AuthInv
<1>2. Started'
  BY DEF AuthInv, Started
<1>3. clients' = [d \in Clients |-> IF d = c THEN r ELSE clients[d]]
  BY DEF AuthInv
<1>4. (\A d \in Clients : Requested(d, clients[d]))'
  <2> SUFFICES ASSUME NEW d \in Clients PROVE Requested(d, clients[d])'
    OBVIOUS
  <2>1. PICK s : s = IF d = c THEN r ELSE clients[d]
    OBVIOUS
  <2>2. s = NoClient \/ InProgress(d, s)
    BY <2>1 DEF AuthInv, Requested
  <2>3. s = NoClient \/ InProgress(d, s)'
    BY <2>2, SameRequest
  <2> QED
    BY <1>3, <2>1, <2>3 DEF Requested
<1> QED
  BY <1>1, <1>2, <1>3, <1>4 DEF AuthInv

\* A request that is not idle is in progress.
LEMMA NotIdle ==
  ASSUME AuthInv, NEW c \in Clients, clients[c].pc # "idle"
  PROVE  server.phase = "up" /\ InProgress(c, clients[c]) /\ IsCall(clients[c].call)
<1>1. NoClient.pc = "idle"
  BY DEF NoClient
<1>2. server.phase = "up" /\ InProgress(c, clients[c])
  BY <1>1 DEF AuthInv, Requested
<1> QED
  BY <1>2, CallsAssumption DEF InProgress

\* The secret of a key names it.
LEMMA SecretsDiffer ==
  ASSUME NEW u, NEW v, Secret(u) = Secret(v)
  PROVE  u = v
<1>1. Secret(u).uid = u /\ Secret(v).uid = v
  BY DEF Secret
<1> QED
  BY <1>1

\* A request that is only received, or refused, says nothing else.
LEMMA QuietRequest ==
  ASSUME NEW r, r.pc \in {"lookup", "get_key", "refused", "creation_all", "creation_indexed",
                          "action_all", "action_indexed", "handler", "put"}
  PROVE  AnswerTrue(r) /\ NarrowTrue(r)
BY DEF AnswerTrue, NarrowTrue

\* A request arrives: master key, tenant token, or a key to look up.
LEMMA ReceiveKeeps ==
  ASSUME AuthInv, NEW c \in Clients, NEW call \in Calls[c], Receive(c, call)
  PROVE  AuthInv'
<1> DEFINE token == call.token
           action == call.action
           master == IsMasterKey(token, action)
           outcome == authenticate_tenant_token(token, action)
           F == Received(call, "handler", None, None, DefaultFilter)
           L == Received(call, "lookup", None, None, None)
           G == Received(call, "get_key", token.uid, token.rules, None)
           R == Received(call, "refused", None, None, None)
           r == IF master THEN F ELSE IF outcome = "NotATenantToken" THEN L
                ELSE IF outcome = "Valid" THEN G ELSE R
<1>1. IsCall(call)
  BY CallsAssumption
<1>2. action \in Action /\ IsToken(token)
  BY <1>1 DEF IsCall
<1>3. Search \in Action /\ Search.group # "keys"
  BY DEF Search, Action, Op
<1>4. ~master /\ action = Search => server.master # None
  BY <1>2, <1>3, KeysGroup DEF IsMasterKey
<1>5. server.master # None => generate_key(token.uid) = Secret(token.uid)
  BY DEF generate_key, Secret
<1>6. InProgress(c, F) \/ ~master
  <2> SUFFICES ASSUME master PROVE InProgress(c, F)
    OBVIOUS
  <2>1. /\ F.pc = "handler" /\ F.call = call /\ F.stable = TRUE /\ F.rules = None
        /\ F.filter = DefaultFilter /\ Shape(F) /\ F.creation = FALSE
    BY DEF Received, Shape
  <2>2. Entitled(call)
    BY <1>2, KeysGroup DEF Entitled, IsMasterKey
  <2> HIDE DEF F
  <2>3. ReadSoFar(F)
    BY <2>1 DEF ReadSoFar, ReadPcs
  <2>4. Decided(F)
    BY <2>1, <2>2, QuietRequest DEF Decided, Granted
  <2> QED
    BY <2>1, <2>3, <2>4 DEF InProgress, Pcs
<1>7. InProgress(c, L) \/ master \/ outcome # "NotATenantToken"
  <2> SUFFICES ASSUME ~master, outcome = "NotATenantToken" PROVE InProgress(c, L)
    OBVIOUS
  <2>1. /\ L.pc = "lookup" /\ L.call = call /\ L.stable = TRUE /\ L.rules = None
        /\ Shape(L) /\ L.creation = FALSE
    BY DEF Received, Shape
  <2>2. action # Search \/ token.type # "tenant"
    BY DEF authenticate_tenant_token
  <2> HIDE DEF L
  <2>3. ReadSoFar(L)
    BY <2>1, <2>2 DEF ReadSoFar, ReadPcs
  <2>4. Decided(L)
    BY <2>1, QuietRequest DEF Decided
  <2> QED
    BY <2>1, <2>3, <2>4 DEF InProgress, Pcs
<1>8. InProgress(c, G) \/ master \/ outcome # "Valid"
  <2> SUFFICES ASSUME ~master, outcome = "Valid" PROVE InProgress(c, G)
    OBVIOUS
  <2>1. /\ G.pc = "get_key" /\ G.call = call /\ G.stable = TRUE /\ G.rules = token.rules
        /\ G.uid = token.uid /\ Shape(G) /\ G.creation = FALSE
    BY DEF Received, Shape
  <2>2. /\ action = Search /\ token.type = "tenant" /\ token.secret = generate_key(token.uid)
        /\ ~(token.exp # None /\ now > token.exp)
    BY DEF authenticate_tenant_token
  <2>3. token.exp # None => now <= token.exp
    <3>1. token.exp # None => token.exp \in Int
      BY <1>2, <2>2 DEF IsToken
    <3>2. now \in Int
      BY DEF AuthInv, Started
    <3> QED
      BY <2>2, <3>1, <3>2
  <2>4. token.uid \in Uids
    BY <1>2, <2>2 DEF IsToken
  <2> HIDE DEF G
  <2>5. Behind(G)
    BY <1>4, <1>5, <2>1, <2>2, <2>3, <2>4 DEF Behind
  <2>6. ReadSoFar(G)
    BY <2>1, <2>5 DEF ReadSoFar, ReadPcs
  <2>7. Decided(G)
    BY <2>1, QuietRequest DEF Decided
  <2> QED
    BY <2>1, <2>6, <2>7 DEF InProgress, Pcs
<1>9. InProgress(c, R) \/ master \/ outcome \in {"NotATenantToken", "Valid"}
  <2> SUFFICES ASSUME ~master, outcome \notin {"NotATenantToken", "Valid"} PROVE InProgress(c, R)
    OBVIOUS
  <2>1. /\ R.pc = "refused" /\ R.call = call /\ R.stable = TRUE /\ Shape(R) /\ R.creation = FALSE
    BY DEF Received, Shape
  <2>2. /\ action = Search /\ token.type = "tenant"
        /\ token.secret # generate_key(token.uid) \/ server.master = None
           \/ (token.exp # None /\ now > token.exp)
    BY DEF authenticate_tenant_token
  <2>3. token.exp # None /\ now > token.exp => ~(now <= token.exp)
    <3>1. token.exp # None => token.exp \in Int
      BY <1>2, <2>2 DEF IsToken
    <3>2. now \in Int
      BY DEF AuthInv, Started
    <3> QED
      BY <3>1, <3>2
  <2>4. ~Entitled(call)
    BY <1>4, <1>5, <2>2, <2>3 DEF Entitled
  <2> HIDE DEF R
  <2>5. ReadSoFar(R)
    BY <2>1 DEF ReadSoFar, ReadPcs
  <2>6. Decided(R)
    BY <2>1, <2>4, QuietRequest DEF Decided
  <2> QED
    BY <2>1, <2>5, <2>6 DEF InProgress, Pcs
<1>10. clients' = [clients EXCEPT ![c] = r]
  BY DEF Receive, Become
<1>11. InProgress(c, r)
  <2> HIDE DEF F, L, G, R, master, outcome
  <2> QED
    BY <1>6, <1>7, <1>8, <1>9
<1> HIDE DEF r
<1> QED
  BY <1>10, <1>11, ReadStep DEF Receive

\* Finding the key of a token, or none.
LEMMA LookupKeeps ==
  ASSUME AuthInv, NEW c \in Clients, get_optional_uid_from_encoded_key(c)
  PROVE  AuthInv'
<1> DEFINE q == clients[c]
           token == q.call.token
           matching == {u \in KeysThere : /\ token.type = "key"
                                          /\ token.secret = generate_key(u)
                                          /\ server.master # None}
           found == CHOOSE u \in matching : TRUE
           no == [q EXCEPT !.pc = "refused"]
           yes == [q EXCEPT !.pc = "get_key", !.uid = found]
<1>1. q.pc = "lookup" /\ server.phase = "up" /\ UNCHANGED <<keys, inverted, disk, server, used, now>>
  BY DEF get_optional_uid_from_encoded_key, Reading
<1>2. clients' = [clients EXCEPT ![c] = IF matching = {} THEN no ELSE yes]
  BY DEF get_optional_uid_from_encoded_key, Become, WithPc
<1>3. InProgress(c, q) /\ IsCall(q.call)
  BY <1>1, NotIdle
<1>4. Shape(q)
  BY <1>3 DEF InProgress
<1>5. /\ ~IsMasterKey(token, q.call.action) /\ q.rules = None
      /\ q.call.action # Search \/ token.type # "tenant"
  BY <1>1, <1>3 DEF InProgress, ReadSoFar
<1>6. \A u : server.master # None => generate_key(u) = Secret(u)
  BY DEF generate_key, Secret
<1>7. matching = {} => InProgress(c, no)
  <2> SUFFICES ASSUME matching = {} PROVE InProgress(c, no)
    OBVIOUS
  <2>1. SameFields(no, q, {"pc"}) /\ no.pc = "refused"
    <3> HIDE DEF q
    <3> QED
      BY <1>4, ChangedField
  <2>2. ~Entitled(q.call)
    <3>1. CASE server.master = None
      BY <1>3, <1>5, <3>1, KeysGroup DEF IsMasterKey, Entitled, IsCall
    <3>2. CASE server.master # None
      BY <1>5, <1>6, <3>2 DEF IsMasterKey, Entitled
    <3> QED
      BY <3>1, <3>2
  <2> HIDE DEF no
  <2>3. ReadSoFar(no)
    BY <2>1 DEF ReadSoFar, ReadPcs
  <2>4. Decided(no)
    BY <2>1, <2>2, QuietRequest DEF Decided, SameFields
  <2> QED
    BY <1>3, <2>1, <2>3, <2>4 DEF InProgress, Pcs, SameFields
<1>8. matching # {} => InProgress(c, yes)
  <2> SUFFICES ASSUME matching # {} PROVE InProgress(c, yes)
    OBVIOUS
  <2>0. found \in matching
    <3> HIDE DEF matching
    <3> QED
      OBVIOUS
  <2>1. /\ found \in Uids /\ token.type = "key" /\ token.secret = Secret(found)
        /\ server.master # None
    BY <2>0, <1>6 DEF KeysThere
  <2> HIDE DEF found
  <2>2. SameFields(yes, q, {"pc", "uid"}) /\ yes.pc = "get_key" /\ yes.uid = found
    <3>1. \A w, x : LET s == [q EXCEPT !.pc = w, !.uid = x]
                    IN  SameFields(s, q, {"pc", "uid"}) /\ s.pc = w /\ s.uid = x
      <4> HIDE DEF q
      <4> QED
        BY <1>4, ChangedUid
    <3> QED
      BY <3>1
  <2> HIDE DEF yes
  <2>3. Behind(yes)
    BY <1>5, <2>1, <2>2 DEF Behind, SameFields
  <2>4. ReadSoFar(yes)
    BY <2>2, <2>3 DEF ReadSoFar, ReadPcs
  <2>5. Decided(yes)
    BY <2>2, QuietRequest DEF Decided
  <2> QED
    BY <1>3, <2>2, <2>4, <2>5 DEF InProgress, Pcs, SameFields
<1> DEFINE r == IF matching = {} THEN no ELSE yes
<1>9. InProgress(c, r)
  <2> HIDE DEF matching, no, yes
  <2> QED
    BY <1>7, <1>8
<1>10. clients' = [clients EXCEPT ![c] = r]
  BY <1>2
<1> HIDE DEF r
<1> QED
  BY <1>1, <1>9, <1>10, ReadStep

\* Reading the key of the uid.
LEMMA GetKeyKeeps ==
  ASSUME AuthInv, NEW c \in Clients, get_key_filters(c)
  PROVE  AuthInv'
<1> DEFINE q == clients[c]
           key == keys[q.uid]
           no == [q EXCEPT !.pc = "refused"]
           yes == [q EXCEPT !.pc = "creation_all", !.key = key]
           r == IF key = None THEN no ELSE yes
<1>1. q.pc = "get_key" /\ server.phase = "up" /\ UNCHANGED <<keys, inverted, disk, server, used, now>>
  BY DEF get_key_filters, Reading
<1>2. clients' = [clients EXCEPT ![c] = r]
  BY DEF get_key_filters, Become, WithPc
<1>3. InProgress(c, q) /\ IsCall(q.call)
  BY <1>1, NotIdle
<1>4. Shape(q) /\ Behind(q)
  BY <1>1, <1>3 DEF InProgress, ReadSoFar
<1>5. key = None => InProgress(c, no)
  <2> SUFFICES ASSUME key = None PROVE InProgress(c, no)
    OBVIOUS
  <2>1. SameFields(no, q, {"pc"}) /\ no.pc = "refused"
    <3> HIDE DEF q
    <3> QED
      BY <1>4, ChangedField
  <2>2. ~Entitled(q.call)
    <3>1. ~(q.call.token.type = "master" /\ q.call.token.master = server.master)
      BY <1>4 DEF Behind, IsMasterKey
    <3>2. \A u \in KeysThere : q.call.token.type = "key" => q.call.token.secret # Secret(u)
      <4> SUFFICES ASSUME NEW u \in KeysThere, q.call.token.type = "key", q.call.token.secret = Secret(u)
                   PROVE  FALSE
        OBVIOUS
      <4>1. Secret(u) = Secret(q.uid)
        BY <1>4 DEF Behind
      <4> QED
        BY <4>1, SecretsDiffer DEF KeysThere
    <3> QED
      BY <1>4, <3>1, <3>2 DEF Behind, Entitled
  <2> HIDE DEF no
  <2>3. ReadSoFar(no)
    BY <2>1 DEF ReadSoFar, ReadPcs
  <2>4. Decided(no)
    BY <2>1, <2>2, QuietRequest DEF Decided, SameFields
  <2> QED
    BY <1>3, <2>1, <2>3, <2>4 DEF InProgress, Pcs, SameFields
<1>6. key # None => InProgress(c, yes)
  <2> SUFFICES ASSUME key # None PROVE InProgress(c, yes)
    OBVIOUS
  <2>1. SameFields(yes, q, {"pc", "key"}) /\ yes.pc = "creation_all" /\ yes.key = key
    <3>1. \A w, x : LET s == [q EXCEPT !.pc = w, !.key = x]
                    IN  SameFields(s, q, {"pc", "key"}) /\ s.pc = w /\ s.key = x
      <4> HIDE DEF q
      <4> QED
        BY <1>4, ChangedKey
    <3> QED
      BY <3>1
  <2> HIDE DEF yes
  <2>2. Behind(yes)
    BY <1>4, <2>1 DEF Behind, SameFields
  <2>3. ReadSoFar(yes)
    BY <2>1, <2>2 DEF ReadSoFar, ReadPcs, SameFields
  <2>4. Decided(yes)
    BY <2>1, QuietRequest DEF Decided
  <2> QED
    BY <1>3, <2>1, <2>3, <2>4 DEF InProgress, Pcs, SameFields
<1>7. InProgress(c, r)
  <2> HIDE DEF no, yes
  <2> QED
    BY <1>5, <1>6
<1> HIDE DEF r
<1> QED
  BY <1>1, <1>2, <1>7, ReadStep

\* The first lookup of is_key_authorized, for IndexesAdd and for the action.
LEMMA ReadAllKeeps ==
  ASSUME AuthInv, NEW c \in Clients,
         \/ ReadAll(c, "creation_all", "creation_indexed", IndexesAdd)
         \/ ReadAll(c, "action_all", "action_indexed", clients[c].call.action)
  PROVE  AuthInv'
<1> DEFINE q == clients[c]
<1>1. PICK pc, next, action :
        /\ \/ pc = "creation_all" /\ next = "creation_indexed" /\ action = IndexesAdd
           \/ pc = "action_all" /\ next = "action_indexed" /\ action = q.call.action
        /\ ReadAll(c, pc, next, action)
  OBVIOUS
<1> DEFINE all == get_expiration_date(inverted, q.uid, action, None)
           r == [q EXCEPT !.pc = next, !.all = all]
<1>2. q.pc = pc /\ server.phase = "up" /\ UNCHANGED <<keys, inverted, disk, server, used, now>>
  BY <1>1 DEF ReadAll, Reading
<1>3. clients' = [clients EXCEPT ![c] = r]
  BY <1>1 DEF ReadAll, Become
<1>4. InProgress(c, q)
  BY <1>1, <1>2, NotIdle
<1>5. Shape(q) /\ Behind(q) /\ ReadSoFar(q)
  BY <1>1, <1>2, <1>4 DEF InProgress, ReadSoFar, ReadPcs
<1>6. SameFields(r, q, {"pc", "all"}) /\ r.pc = next /\ r.all = all
  <2>1. \A w, x : LET s == [q EXCEPT !.pc = w, !.all = x]
                  IN  SameFields(s, q, {"pc", "all"}) /\ s.pc = w /\ s.all = x
    <3> HIDE DEF q
    <3> QED
      BY <1>5, ChangedAll
  <2> QED
    BY <2>1
<1> HIDE DEF r
<1>7. Behind(r)
  BY <1>5, <1>6 DEF Behind, SameFields
<1>8. ReadSoFar(r)
  BY <1>1, <1>2, <1>5, <1>6, <1>7 DEF ReadSoFar, ReadPcs, SameFields
<1>9. Decided(r)
  BY <1>1, <1>6, QuietRequest DEF Decided
<1>10. InProgress(c, r)
  BY <1>1, <1>4, <1>6, <1>8, <1>9 DEF InProgress, Pcs, SameFields
<1> QED
  BY <1>2, <1>3, <1>10, ReadStep

\* IndexesAdd is an action of its own.
LEMMA IndexesAddKnown == IndexesAdd \in Action /\ IndexesAdd.op # "*"
BY DEF IndexesAdd, Action, IndexesOps, Op, Ops

\* The two lookups of a request that nothing disturbed say what its key allows.
LEMMA LookupsDecide ==
  ASSUME AuthInv, NEW r, r.uid \in Uids, keys[r.uid] # None,
         NEW action \in Action, action.op # "*", NEW index \in IndexUids \cup {None},
         r.all = get_expiration_date(inverted, r.uid, action, None)
  PROVE  NotExpired(r.all, IndexedExpiration(inverted, r.uid, action, index), now)
         <=> Allows(keys[r.uid], action, index)
<1>1. IsKey(keys[r.uid]) /\ {e \in inverted : e.uid = r.uid} = EntriesOf(r.uid, keys[r.uid])
  BY DEF AuthInv, Stored, KeysThere
<1>2. NotExpired(get_expiration_date(inverted, r.uid, action, None),
                 IndexedExpiration(inverted, r.uid, action, index), now)
      <=> /\ Covers(keys[r.uid], action)
          /\ IF index = None THEN keys[r.uid].indexes # {}
             ELSE \E p \in keys[r.uid].indexes : matches_str(p, index)
          /\ keys[r.uid].expires_at # None => now < keys[r.uid].expires_at
  <2> DEFINE u == r.uid
             key == keys[u]
  <2>1. IsKey(key) /\ {e \in inverted : e.uid = u} = EntriesOf(u, key)
    BY <1>1
  <2> HIDE DEF u, key
  <2>2. NotExpired(get_expiration_date(inverted, u, action, None),
                   IndexedExpiration(inverted, u, action, index), now)
        <=> /\ Covers(key, action)
            /\ IF index = None THEN key.indexes # {}
               ELSE \E p \in key.indexes : matches_str(p, index)
            /\ key.expires_at # None => now < key.expires_at
    BY <2>1, LookupsExact
  <2> QED
    BY <2>2 DEF u, key
<1> QED
  BY <1>2 DEF Allows

\* The right to create indexes.
LEMMA CheckCreationKeeps ==
  ASSUME AuthInv, NEW c \in Clients, CheckCreation(c)
  PROVE  AuthInv'
<1> DEFINE q == clients[c]
           creation == Authorized(c, IndexesAdd, None)
           r == [q EXCEPT !.pc = "action_all", !.creation = creation]
<1>1. q.pc = "creation_indexed" /\ server.phase = "up"
      /\ UNCHANGED <<keys, inverted, disk, server, used, now>>
  BY DEF CheckCreation, Reading
<1>2. clients' = [clients EXCEPT ![c] = r]
  BY DEF CheckCreation, Become
<1>3. InProgress(c, q)
  BY <1>1, NotIdle
<1>4. Shape(q) /\ Behind(q) /\ ReadSoFar(q)
  BY <1>1, <1>3 DEF InProgress, ReadSoFar, ReadPcs
<1>5. SameFields(r, q, {"pc", "creation"}) /\ r.pc = "action_all" /\ r.creation = creation
  <2>1. \A w, x : LET s == [q EXCEPT !.pc = w, !.creation = x]
                  IN  SameFields(s, q, {"pc", "creation"}) /\ s.pc = w /\ s.creation = x
    <3> HIDE DEF q
    <3> QED
      BY <1>4, ChangedCreation
  <2> QED
    BY <2>1
<1>6. q.stable => (creation <=> Allows(keys[q.uid], IndexesAdd, None))
  <2> SUFFICES ASSUME q.stable PROVE creation <=> Allows(keys[q.uid], IndexesAdd, None)
    OBVIOUS
  <2>1. /\ q.uid \in Uids /\ keys[q.uid] # None
        /\ q.all = get_expiration_date(inverted, q.uid, IndexesAdd, None)
    BY <1>1, <1>4 DEF ReadSoFar, ReadPcs, Behind
  <2> QED
    BY <2>1, LookupsDecide, IndexesAddKnown DEF Authorized
<1>7. creation \in BOOLEAN
  BY DEF Authorized, NotExpired
<1> HIDE DEF r, creation
<1>8. Behind(r)
  BY <1>4, <1>5 DEF Behind, SameFields
<1>9. ReadSoFar(r)
  BY <1>1, <1>4, <1>5, <1>6, <1>8 DEF ReadSoFar, ReadPcs, SameFields
<1>10. Decided(r)
  BY <1>5, QuietRequest DEF Decided
<1>11. InProgress(c, r)
  BY <1>3, <1>5, <1>7, <1>9, <1>10 DEF InProgress, Pcs, SameFields
<1> QED
  BY <1>1, <1>2, <1>11, ReadStep

\* The indexes of a set of rules and of a map.
LEMMA FilterReads ==
  ASSUME NEW rules, NEW patterns, NEW creation, NEW i
  PROVE  LET filter == AuthFilter(rules, SetRules(patterns), creation)
         IN  /\ is_index_authorized(filter, i) <=>
                  /\ \E p \in patterns : matches_str(p, i)
                  /\ rules # None => \E p \in DOMAIN rules.rules : matches_str(p, i)
             /\ filter.search_rules = rules
             /\ filter.allow_index_creation = creation
<1> DEFINE filter == AuthFilter(rules, SetRules(patterns), creation)
<1>1. /\ filter.search_rules = rules /\ filter.allow_index_creation = creation
      /\ filter.key_authorized_indexes = SetRules(patterns)
  BY DEF AuthFilter
<1>2. DOMAIN SetRules(patterns).rules = patterns
  BY DEF SetRules
<1> HIDE DEF filter
<1>3. is_index_authorized(filter, i) <=>
        /\ \E p \in patterns : matches_str(p, i)
        /\ rules # None => \E p \in DOMAIN rules.rules : matches_str(p, i)
  BY <1>1, <1>2 DEF is_index_authorized, RulesAuthorize
<1> QED
  BY <1>1, <1>3 DEF filter

\* The key behind a request is the one it looks up, and decides with the rules of the token.
LEMMA EntitledBehind ==
  ASSUME NEW r, IsCall(r.call), Behind(r), r.stable, keys[r.uid] # None
  PROVE  Entitled(r.call) <=>
           /\ Allows(keys[r.uid], r.call.action, r.call.index)
           /\ r.rules # None /\ r.call.index # None =>
                \E p \in DOMAIN r.rules.rules : matches_str(p, r.call.index)
<1> DEFINE t == r.call.token
<1>1. server.master # None /\ ~(t.type = "master" /\ t.master = server.master) /\ r.uid \in KeysThere
  BY DEF Behind, IsMasterKey, KeysThere
<1>2. CASE t.type = "key"
  <2>1. t.secret = Secret(r.uid) /\ r.rules = None
    BY <1>2 DEF Behind
  <2>2. \A u : t.secret = Secret(u) => u = r.uid
    BY <2>1, SecretsDiffer
  <2> QED
    BY <1>1, <1>2, <2>1, <2>2 DEF Entitled
<1>3. CASE t.type # "key"
  <2>1. /\ t.type = "tenant" /\ r.call.action = Search /\ t.secret = Secret(t.uid)
        /\ r.uid = t.uid /\ r.rules = t.rules /\ (t.exp # None => now <= t.exp)
    BY <1>3 DEF Behind
  <2>2. t.rules # None
    BY <2>1 DEF IsCall, IsToken
  <2> QED
    BY <1>1, <2>1, <2>2 DEF Entitled
<1> QED
  BY <1>2, <1>3

\* The second lookup, and the decision.
LEMMA DecideKeeps ==
  ASSUME AuthInv, NEW c \in Clients, Decide(c)
  PROVE  AuthInv'
<1> DEFINE q == clients[c]
           call == q.call
           filter == AuthFilter(q.rules, SetRules(q.key.indexes), q.creation)
           ok == /\ Authorized(c, call.action, call.index)
                 /\ call.index # None => is_index_authorized(filter, call.index)
           yes == [q EXCEPT !.pc = "handler", !.filter = filter, !.key = None, !.all = {}]
           no == [q EXCEPT !.pc = "refused", !.key = None, !.all = {}]
           r == IF ok THEN yes ELSE no
<1>1. q.pc = "action_indexed" /\ server.phase = "up"
      /\ UNCHANGED <<keys, inverted, disk, server, used, now>>
  BY DEF Decide, Reading
<1>2. clients' = [clients EXCEPT ![c] = r]
  BY DEF Decide, Become
<1>3. InProgress(c, q) /\ IsCall(call)
  BY <1>1, NotIdle
<1>4. Shape(q) /\ Behind(q) /\ ReadSoFar(q)
  BY <1>1, <1>3 DEF InProgress, ReadSoFar, ReadPcs
<1>5. q.stable =>
        /\ keys[q.uid] # None /\ q.key = keys[q.uid]
        /\ q.creation <=> Allows(keys[q.uid], IndexesAdd, None)
        /\ Authorized(c, call.action, call.index) <=> Allows(keys[q.uid], call.action, call.index)
  <2> SUFFICES ASSUME q.stable
               PROVE  /\ keys[q.uid] # None /\ q.key = keys[q.uid]
                      /\ q.creation <=> Allows(keys[q.uid], IndexesAdd, None)
                      /\ Authorized(c, call.action, call.index)
                           <=> Allows(keys[q.uid], call.action, call.index)
    OBVIOUS
  <2>1. /\ q.uid \in Uids /\ keys[q.uid] # None /\ q.key = keys[q.uid]
        /\ q.all = get_expiration_date(inverted, q.uid, call.action, None)
        /\ q.creation <=> Allows(keys[q.uid], IndexesAdd, None)
    BY <1>1, <1>4 DEF ReadSoFar, ReadPcs, Behind
  <2>2. call.action \in Action /\ call.action.op # "*" /\ call.index \in IndexUids \cup {None}
    BY <1>3 DEF IsCall
  <2>3. Authorized(c, call.action, call.index) <=> Allows(keys[q.uid], call.action, call.index)
    BY <2>1, <2>2, LookupsDecide DEF Authorized
  <2> QED
    BY <2>1, <2>3
<1>6. \A i : is_index_authorized(filter, i) <=>
               /\ \E p \in q.key.indexes : matches_str(p, i)
               /\ q.rules # None => \E p \in DOMAIN q.rules.rules : matches_str(p, i)
  BY FilterReads
<1>7. q.stable => (ok <=> Entitled(call))
  <2> SUFFICES ASSUME q.stable PROVE ok <=> Entitled(call)
    OBVIOUS
  <2>1. Entitled(call) <=>
          /\ Allows(keys[q.uid], call.action, call.index)
          /\ q.rules # None /\ call.index # None =>
               \E p \in DOMAIN q.rules.rules : matches_str(p, call.index)
    BY <1>3, <1>4, <1>5, EntitledBehind
  <2>2. Allows(keys[q.uid], call.action, call.index) /\ call.index # None =>
          \E p \in q.key.indexes : matches_str(p, call.index)
    BY <1>5 DEF Allows
  <2> HIDE DEF filter
  <2> QED
    BY <1>5, <1>6, <2>1, <2>2
<1>8. ok => InProgress(c, yes)
  <2> SUFFICES ASSUME ok PROVE InProgress(c, yes)
    OBVIOUS
  <2>1. SameFields(yes, q, {"pc", "filter", "key", "all"}) /\ yes.pc = "handler" /\ yes.filter = filter
    <3> DEFINE half == [q EXCEPT !.pc = "handler", !.filter = filter]
               full == [half EXCEPT !.key = None, !.all = {}]
    <3>1. SameFields(half, q, {"pc", "filter"}) /\ half.pc = "handler" /\ half.filter = filter
      <4>1. \A w, x : LET s == [q EXCEPT !.pc = w, !.filter = x]
                      IN  SameFields(s, q, {"pc", "filter"}) /\ s.pc = w /\ s.filter = x
        <5> HIDE DEF q
        <5> QED
          BY <1>4, ChangedFilter
      <4> HIDE DEF q, filter
      <4> QED
        BY <4>1
    <3> HIDE DEF half
    <3>2. SameFields(full, half, {"key", "all"})
      <4>1. Shape(half)
        BY <3>1 DEF SameFields
      <4>2. \A w, x : LET s == [half EXCEPT !.key = w, !.all = x]
                      IN  SameFields(s, half, {"key", "all"}) /\ s.key = w /\ s.all = x
        BY <4>1, ChangedReads
      <4> QED
        BY <4>2
    <3>3. SameFields(full, q, {"pc", "filter", "key", "all"}) /\ full.pc = "handler" /\ full.filter = filter
      <4> HIDE DEF full, q, filter
      <4> QED
        BY <3>1, <3>2 DEF SameFields
    <3> QED
      BY <3>3 DEF half
  <2> HIDE DEF yes
  <2>2. Behind(yes)
    BY <1>4, <2>1 DEF Behind, SameFields
  <2>3. ReadSoFar(yes)
    BY <2>1 DEF ReadSoFar, ReadPcs
  <2>4. Granted(yes)
    <3>1. q.stable => Allows(keys[q.uid], call.action, call.index)
      BY <1>5
    <3>2. \E patterns : yes.filter = AuthFilter(yes.rules, SetRules(patterns), yes.creation)
      BY <2>1 DEF SameFields
    <3> QED
      BY <1>5, <2>1, <2>2, <3>1, <3>2 DEF Granted, SameFields
  <2>5. Decided(yes)
    BY <1>7, <2>1, <2>4, QuietRequest DEF Decided, SameFields
  <2> QED
    BY <1>3, <2>1, <2>3, <2>5 DEF InProgress, Pcs, SameFields
<1>9. ~ok => InProgress(c, no)
  <2> SUFFICES ASSUME ~ok PROVE InProgress(c, no)
    OBVIOUS
  <2>1. SameFields(no, q, {"pc", "key", "all"}) /\ no.pc = "refused"
    <3>1. \A w, x, y : LET s == [q EXCEPT !.pc = w, !.key = x, !.all = y]
                       IN  SameFields(s, q, {"pc", "key", "all"}) /\ s.pc = w /\ s.key = x /\ s.all = y
      <4> HIDE DEF q
      <4> QED
        BY <1>4, ChangedRefused
    <3> HIDE DEF q
    <3> QED
      BY <3>1
  <2> HIDE DEF no
  <2>2. ReadSoFar(no)
    BY <2>1 DEF ReadSoFar, ReadPcs
  <2>3. Decided(no)
    BY <1>7, <2>1, QuietRequest DEF Decided, SameFields
  <2> QED
    BY <1>3, <2>1, <2>2, <2>3 DEF InProgress, Pcs, SameFields
<1>10. InProgress(c, r)
  <2> HIDE DEF ok, no, yes
  <2> QED
    BY <1>8, <1>9
<1> HIDE DEF r
<1> QED
  BY <1>1, <1>2, <1>10, ReadStep

----------------------------------------------------------------------------
(* The handlers. *)

\* Only a search is granted with the rules of a tenant token.
LEMMA RulesOfSearch ==
  ASSUME NEW r, IsCall(r.call), Granted(r), r.rules # None
  PROVE  /\ r.call.route = "multi_search" /\ r.rules = r.call.token.rules
         /\ \A p \in DOMAIN r.rules.rules : IsPattern(p)
<1>1. Behind(r)
  BY DEF Granted
<1>2. r.call.token.type = "tenant" /\ r.call.action = Search /\ r.rules = r.call.token.rules
  BY <1>1 DEF Behind
<1> QED
  BY <1>2 DEF IsCall, IsToken

\* The key behind the token of a request is the one it looked up.
LEMMA KeyIsBehind ==
  ASSUME NEW r, Behind(r)
  PROVE  KeyBehind(r.call) = keys[r.uid]
<1> DEFINE t == r.call.token
<1>1. server.master # None /\ t.type \in {"key", "tenant"} /\ r.uid \in Uids
  BY DEF Behind
<1>2. CASE t.type = "key"
  <2>1. t.secret = Secret(r.uid)
    BY <1>2 DEF Behind
  <2>2. \A u \in Uids : t.secret = Secret(u) => u = r.uid
    BY <2>1, SecretsDiffer
  <2>3. (CHOOSE u \in Uids : t.secret = Secret(u)) = r.uid
    <3> HIDE DEF t
    <3> QED
      BY <1>1, <2>1, <2>2
  <2> QED
    BY <1>1, <1>2, <2>3 DEF KeyBehind
<1>3. CASE t.type # "key"
  <2>1. t.type = "tenant" /\ r.uid = t.uid
    BY <1>3 DEF Behind
  <2> QED
    BY <1>1, <2>1 DEF KeyBehind
<1> QED
  BY <1>2, <1>3

\* The filter of a request that nothing disturbed says what its token gives access to.
LEMMA FilterExact ==
  ASSUME NEW r, IsCall(r.call), Granted(r), r.stable, NEW i \in IndexUids
  PROVE  /\ is_index_authorized(r.filter, i) <=> Visible(r.call, i)
         /\ allow_index_creation(r.filter, i) <=>
              Covers(KeyBehind(r.call), IndexesAdd) /\ Visible(r.call, i)
<1> DEFINE t == r.call.token
<1>1. CASE IsMasterKey(t, r.call.action) /\ r.filter = DefaultFilter
  <2>1. is_index_authorized(r.filter, i) /\ r.filter.allow_index_creation
    <3> DEFINE patterns == {AllIndexes}
               filter == AuthFilter(None, SetRules(patterns), TRUE)
    <3>1. \E p \in patterns : matches_str(p, i)
      BY AllMatches
    <3>2. is_index_authorized(filter, i) /\ filter.allow_index_creation = TRUE
      <4> HIDE DEF patterns
      <4>1. \A rules, creation : LET f == AuthFilter(rules, SetRules(patterns), creation)
            IN  /\ is_index_authorized(f, i) <=>
                     /\ \E p \in patterns : matches_str(p, i)
                     /\ rules # None => \E p \in DOMAIN rules.rules : matches_str(p, i)
                /\ f.search_rules = rules
                /\ f.allow_index_creation = creation
        BY FilterReads
      <4> QED
        BY <3>1, <4>1
    <3> HIDE DEF filter
    <3>3. r.filter = filter
      BY <1>1 DEF DefaultFilter, DefaultRules, filter
    <3> QED
      BY <3>2, <3>3
  <2>2. KeyBehind(r.call) = default_admin
    BY <1>1 DEF IsMasterKey, KeyBehind
  <2>3. default_admin.indexes = {AllIndexes} /\ default_admin.actions = {All}
    BY DEF default_admin, NewKey
  <2>4. ~(server.master # None /\ t.type = "tenant")
    BY <1>1 DEF IsMasterKey
  <2>5. Visible(r.call, i)
    BY <2>2, <2>3, <2>4, AllMatches DEF Visible
  <2>6. Covers(KeyBehind(r.call), IndexesAdd)
    BY <2>2, <2>3 DEF Covers
  <2> QED
    BY <2>1, <2>5, <2>6 DEF allow_index_creation
<1>2. CASE Behind(r)
  <2> DEFINE key == keys[r.uid]
  <2>1. CASE IsMasterKey(t, r.call.action)
    BY <1>2, <2>1 DEF Behind
  <2>2. CASE ~IsMasterKey(t, r.call.action)
    <3>1. /\ r.filter = AuthFilter(r.rules, SetRules(key.indexes), r.creation)
          /\ r.creation <=> Allows(key, IndexesAdd, None)
          /\ Allows(key, r.call.action, r.call.index)
      BY <2>2 DEF Granted
    <3>2. /\ is_index_authorized(r.filter, i) <=>
               /\ \E p \in key.indexes : matches_str(p, i)
               /\ r.rules # None => \E p \in DOMAIN r.rules.rules : matches_str(p, i)
          /\ r.filter.allow_index_creation = r.creation
      <4> DEFINE filter == AuthFilter(r.rules, SetRules(key.indexes), r.creation)
      <4>1. /\ is_index_authorized(filter, i) <=>
                 /\ \E p \in key.indexes : matches_str(p, i)
                 /\ r.rules # None => \E p \in DOMAIN r.rules.rules : matches_str(p, i)
            /\ filter.allow_index_creation = r.creation
        BY FilterReads
      <4>2. r.filter = filter
        BY <3>1
      <4> HIDE DEF key, filter
      <4> QED
        BY <4>1, <4>2
    <3>3. KeyBehind(r.call) = key
      BY <1>2, KeyIsBehind
    <3>4. server.master # None /\ (t.type = "tenant" <=> r.rules # None) /\ (r.rules # None => r.rules = t.rules)
      BY <1>2 DEF Behind, IsCall, IsToken
    <3>5. Visible(r.call, i) <=> is_index_authorized(r.filter, i)
      BY <3>2, <3>3, <3>4 DEF Visible
    <3>6. key.expires_at # None => now < key.expires_at
      BY <3>1 DEF Allows
    <3>7. Visible(r.call, i) => (r.creation <=> Covers(key, IndexesAdd))
      BY <3>1, <3>2, <3>5, <3>6 DEF Allows
    <3> HIDE DEF key
    <3> QED
      BY <3>2, <3>3, <3>5, <3>7 DEF allow_index_creation
  <2> QED
    BY <2>1, <2>2
<1> QED
  BY <1>1, <1>2 DEF Granted

\* A request with its answer.
Ended(q, answer) == [q EXCEPT !.pc = "done", !.filter = None, !.reply = answer]

\* The rest of the request stays.
LEMMA EndedFields ==
  ASSUME NEW q, Shape(q), NEW answer
  PROVE  SameFields(Ended(q, answer), q, {"pc", "filter", "reply"})
         /\ Ended(q, answer).pc = "done" /\ Ended(q, answer).reply = answer
<1> DEFINE s1 == [q EXCEPT !.pc = "done"]
           s2 == [s1 EXCEPT !.filter = None]
           s3 == [s2 EXCEPT !.reply = answer]
<1>1. SameFields(s1, q, {"pc"}) /\ s1.pc = "done"
  BY ChangedField
<1> HIDE DEF s1
<1>2. SameFields(s2, s1, {"filter"})
  <2>1. Shape(s1)
    BY <1>1 DEF SameFields
  <2> QED
    BY <2>1, ChangedField
<1> HIDE DEF s2
<1>3. SameFields(s3, s2, {"reply"}) /\ s3.reply = answer
  <2>1. Shape(s2)
    BY <1>2 DEF SameFields
  <2> QED
    BY <2>1, ChangedField
<1>4. SameFields(s3, q, {"pc", "filter", "reply"}) /\ s3.pc = "done" /\ s3.reply = answer
  <2> HIDE DEF s3
  <2> QED
    BY <1>1, <1>2, <1>3 DEF SameFields
<1> QED
  BY <1>4 DEF s1, s2, s3, Ended

\* An answer that is true ends the request.
LEMMA AnswerStep ==
  ASSUME AuthInv, NEW c \in Clients, clients[c].pc \in {"handler", "put"}, NEW answer,
         AnswerTrue(Ended(clients[c], answer)), NarrowTrue(Ended(clients[c], answer))
  PROVE  InProgress(c, Ended(clients[c], answer))
<1> DEFINE q == clients[c]
           r == Ended(q, answer)
<1>1. InProgress(c, q)
  BY NotIdle
<1>2. SameFields(r, q, {"pc", "filter", "reply"}) /\ r.pc = "done"
  BY <1>1, EndedFields DEF InProgress
<1> HIDE DEF r
<1>3. ReadSoFar(r)
  BY <1>2 DEF ReadSoFar, ReadPcs
<1>4. Decided(r)
  BY <1>2 DEF Decided, r
<1>5. InProgress(c, r)
  BY <1>1, <1>2, <1>3, <1>4 DEF InProgress, Pcs, SameFields
<1> QED
  BY <1>5 DEF r

\* The answers of the handlers have this form.
LEMMA AnsweredEnded ==
  ASSUME NEW c, NEW status, NEW value
  PROVE  Answered(c, status, value) = Ended(clients[c], [status |-> status, value |-> value])
BY Zenon DEF Answered, Ended

\* What a request that reached its handler has.
LEMMA AtHandler ==
  ASSUME AuthInv, NEW c \in Clients, clients[c].pc = "handler"
  PROVE  /\ server.phase = "up" /\ InProgress(c, clients[c]) /\ Shape(clients[c])
         /\ IsCall(clients[c].call) /\ Granted(clients[c])
         /\ clients[c].call.route # "multi_search" => clients[c].rules = None
<1>1. server.phase = "up" /\ InProgress(c, clients[c]) /\ IsCall(clients[c].call)
  BY NotIdle
<1>2. Granted(clients[c]) /\ Shape(clients[c])
  BY <1>1 DEF InProgress, Decided
<1> QED
  BY <1>1, <1>2, RulesOfSearch

\* The answer of a route that does not read the filter.
LEMMA PlainAnswer ==
  ASSUME AuthInv, NEW c \in Clients, clients[c].pc \in {"handler", "put"}, clients[c].rules = None,
         clients[c].call.route \in {"create", "update", "delete", "keys", "key"}, NEW answer
  PROVE  InProgress(c, Ended(clients[c], answer))
<1> DEFINE q == clients[c]
           r == Ended(q, answer)
<1>1. Shape(q)
  BY NotIdle DEF InProgress
<1>2. r.call = q.call /\ r.rules = None
  BY <1>1, EndedFields DEF SameFields
<1>3. AnswerTrue(r) /\ NarrowTrue(r)
  <2> HIDE DEF r
  <2> QED
    BY <1>2 DEF AnswerTrue, NarrowTrue
<1> QED
  BY <1>3, AnswerStep

\* A key that is about to be put.
LEMMA WriteStep ==
  ASSUME AuthInv, NEW c \in Clients, clients[c].pc = "handler",
         clients[c].call.route \in {"create", "update"}, NEW key, IsKey(key)
  PROVE  InProgress(c, [clients[c] EXCEPT !.pc = "put", !.write = key])
<1> DEFINE q == clients[c]
           r == [q EXCEPT !.pc = "put", !.write = key]
<1>1. Shape(q) /\ InProgress(c, q) /\ q.rules = None
  BY AtHandler
<1>2. SameFields(r, q, {"pc", "write"}) /\ r.pc = "put" /\ r.write = key
  <2>1. \A w, x : LET s == [q EXCEPT !.pc = w, !.write = x]
                  IN  SameFields(s, q, {"pc", "write"}) /\ s.pc = w /\ s.write = x
    <3>1. Shape(q)
      BY <1>1
    <3> HIDE DEF q
    <3> QED
      BY ONLY <3>1, ChangedWrite
  <2> QED
    BY <2>1
<1>3. InProgress(c, r)
  <2> HIDE DEF r
  <2>1. ReadSoFar(r)
    BY <1>2 DEF ReadSoFar, ReadPcs
  <2>2. Decided(r)
    BY <1>1, <1>2, QuietRequest DEF Decided, SameFields
  <2> QED
    BY <1>1, <1>2, <2>1, <2>2 DEF InProgress, Pcs, SameFields
<1> QED
  BY <1>3

\* create_key up to the put.
LEMMA CreateKeeps ==
  ASSUME AuthInv, NEW c \in Clients, create_key(c)
  PROVE  AuthInv'
<1> DEFINE q == clients[c]
           put == [q EXCEPT !.pc = "put", !.write = q.call.key]
<1>1. q.pc = "handler" /\ q.call.route = "create" /\ server.phase = "up"
      /\ UNCHANGED <<keys, inverted, disk, server, used, now>>
  BY DEF create_key, Reading
<1>2. \E r \in {Reply(c, "bad request"), Reply(c, "already exists"), put} :
        clients' = [clients EXCEPT ![c] = r]
  BY DEF create_key, Become
<1>3. IsKey(q.call.key) /\ q.rules = None
  BY <1>1, AtHandler DEF IsCall
<1>4. InProgress(c, put)
  BY <1>1, <1>3, WriteStep
<1>5. \A status : InProgress(c, Reply(c, status))
  BY <1>1, <1>3, PlainAnswer, AnsweredEnded DEF Reply
<1> HIDE DEF put
<1>6. PICK r : clients' = [clients EXCEPT ![c] = r] /\ InProgress(c, r)
  BY <1>2, <1>4, <1>5
<1> QED
  BY <1>1, <1>6, ReadStep

\* update_key up to the put: it patches the name of the key it read.
LEMMA UpdateKeeps ==
  ASSUME AuthInv, NEW c \in Clients, update_key(c)
  PROVE  AuthInv'
<1> DEFINE q == clients[c]
           key == keys[q.call.uid]
           patched == [key EXCEPT !.name = q.call.name]
           put == [q EXCEPT !.pc = "put", !.write = patched]
<1>1. q.pc = "handler" /\ q.call.route = "update" /\ server.phase = "up"
      /\ UNCHANGED <<keys, inverted, disk, server, used, now>>
  BY DEF update_key, Reading
<1>2. \/ clients' = [clients EXCEPT ![c] = Reply(c, "not found")]
      \/ key # None /\ clients' = [clients EXCEPT ![c] = put]
  BY DEF update_key, Become
<1>3. q.call.uid \in Uids /\ q.rules = None
  BY <1>1, AtHandler DEF IsCall
<1>4. CASE clients' = [clients EXCEPT ![c] = Reply(c, "not found")]
  <2>1. InProgress(c, Reply(c, "not found"))
    BY <1>1, <1>3, PlainAnswer, AnsweredEnded DEF Reply
  <2> QED
    BY <1>1, <1>4, <2>1, ReadStep
<1>5. CASE key # None /\ clients' = [clients EXCEPT ![c] = put]
  <2>1. IsKey(key)
    BY <1>3, <1>5 DEF AuthInv, Stored, KeysThere
  <2>2. IsKey(patched)
    <3> HIDE DEF key
    <3>1. patched = [name |-> q.call.name, actions |-> key.actions, indexes |-> key.indexes,
                     expires_at |-> key.expires_at]
      BY <2>1 DEF IsKey
    <3> HIDE DEF patched
    <3> QED
      BY <2>1, <3>1 DEF IsKey
  <2>3. InProgress(c, put)
    <3> HIDE DEF patched
    <3> QED
      BY <1>1, <2>2, WriteStep
  <2> HIDE DEF put
  <2> QED
    BY <1>1, <1>5, <2>3, ReadStep
<1> QED
  BY <1>2, <1>4, <1>5

\* A step that writes: the other requests are unsettled.
LEMMA WriteUnsettles ==
  ASSUME AuthInv, NEW c \in Clients, NEW r, InProgress(c, r), server.phase = "up",
         clients' = [Unsettled EXCEPT ![c] = [r EXCEPT !.stable = FALSE]],
         UNCHANGED <<disk, server, used, now>>, Stored'
  PROVE  AuthInv'
<1>1. Started'
  BY DEF AuthInv, Started
<1> DEFINE r2 == [r EXCEPT !.stable = FALSE]
<1>2. InProgress(c, r2)'
  BY UnsettledRequest
<1>3. \A d \in Clients : clients'[d] = IF d = c THEN r2 ELSE
         IF clients[d].pc = "idle" THEN clients[d] ELSE [clients[d] EXCEPT !.stable = FALSE]
  <2> HIDE DEF r2
  <2>1. clients' = [Unsettled EXCEPT ![c] = r2]
    BY DEF r2
  <2> QED
    BY <2>1 DEF Unsettled
<1>4. clients' = [d \in Clients |-> clients'[d]]
  <2> HIDE DEF r2
  <2>1. clients' = [Unsettled EXCEPT ![c] = r2]
    BY DEF r2
  <2> QED
    BY <2>1 DEF Unsettled
<1>5. (\A d \in Clients : Requested(d, clients[d]))'
  <2> SUFFICES ASSUME NEW d \in Clients PROVE Requested(d, clients[d])'
    OBVIOUS
  <2>1. CASE d = c
    <3> HIDE DEF r2
    <3> QED
      BY <1>2, <1>3, <2>1 DEF Requested
  <2>2. CASE d # c /\ clients[d].pc = "idle"
    <3>1. clients'[d] = clients[d]
      BY <1>3, <2>2
    <3>2. clients[d] = NoClient
      BY <2>2 DEF AuthInv, Requested, InProgress, Pcs
    <3> QED
      BY <3>1, <3>2 DEF Requested
  <2>3. CASE d # c /\ clients[d].pc # "idle"
    <3>1. PICK s : s = clients[d]
      OBVIOUS
    <3> DEFINE s2 == [s EXCEPT !.stable = FALSE]
    <3>2. clients'[d] = s2
      BY <1>3, <2>3, <3>1
    <3>3. InProgress(d, s)
      BY <2>3, <3>1, NotIdle
    <3>4. InProgress(d, s2)'
      BY <3>3, UnsettledRequest
    <3> HIDE DEF s2
    <3> QED
      BY <3>2, <3>4 DEF Requested
  <2> QED
    BY <2>1, <2>2, <2>3
<1> QED
  BY <1>1, <1>4, <1>5 DEF AuthInv

\* The second transaction of create_key and update_key.
LEMMA PutKeeps ==
  ASSUME AuthInv, NEW c \in Clients, Put(c)
  PROVE  AuthInv'
<1> DEFINE q == clients[c]
<1>1. q.pc = "put" /\ server.phase = "up" /\ put_api_key(q.call.uid, q.write)
      /\ UNCHANGED <<disk, server, used, now>>
  BY DEF Put
<1>2. InProgress(c, q) /\ IsCall(q.call)
  BY <1>1, NotIdle
<1>3. q.call.route \in {"create", "update"} /\ IsKey(q.write) /\ q.rules = None /\ q.call.uid \in Uids
  BY <1>1, <1>2 DEF InProgress, Decided, IsCall
<1>4. Stored'
  BY <1>1, <1>3, PutStored DEF AuthInv
<1>5. PICK r : r = Reply(c, "ok")
  OBVIOUS
<1>6. clients' = [Unsettled EXCEPT ![c] = [r EXCEPT !.stable = FALSE]]
  BY <1>5 DEF Put
<1>7. InProgress(c, r)
  BY <1>1, <1>3, <1>5, PlainAnswer, AnsweredEnded DEF Reply
<1> QED
  BY <1>1, <1>4, <1>6, <1>7, WriteUnsettles

\* delete_key removes the key and its entries in one transaction.
LEMMA DeleteKeeps ==
  ASSUME AuthInv, NEW c \in Clients, delete_key(c)
  PROVE  AuthInv'
<1> DEFINE q == clients[c]
<1>1. /\ q.pc = "handler" /\ q.call.route = "delete" /\ server.phase = "up"
      /\ keys' = [keys EXCEPT ![q.call.uid] = None]
      /\ inverted' = {e \in inverted : e.uid # q.call.uid}
      /\ UNCHANGED <<disk, server, used, now>>
  BY DEF delete_key
<1>2. q.call.uid \in Uids /\ q.rules = None
  BY <1>1, AtHandler DEF IsCall
<1>3. Stored'
  BY <1>1, <1>2, DeleteStored DEF AuthInv
<1>4. PICK r : r = Reply(c, IF keys[q.call.uid] = None THEN "not found" ELSE "ok")
  OBVIOUS
<1>5. clients' = [Unsettled EXCEPT ![c] = [r EXCEPT !.stable = FALSE]]
  BY <1>4 DEF delete_key
<1>6. InProgress(c, r)
  BY <1>1, <1>2, <1>4, PlainAnswer, AnsweredEnded DEF Reply
<1> QED
  BY <1>1, <1>3, <1>5, <1>6, WriteUnsettles

\* The routes that may create an index, and add_documents says whether it may.
LEMMA CreationAnswer ==
  ASSUME AuthInv, NEW c \in Clients, clients[c].pc = "handler",
         clients[c].call.route \in {"create_index", "add_documents"}
  PROVE  /\ clients[c].call.route = "create_index" => InProgress(c, create_index(c))
         /\ clients[c].call.route = "add_documents" => InProgress(c, add_documents(c))
<1> DEFINE q == clients[c]
<1>1. Shape(q) /\ Granted(q) /\ IsCall(q.call) /\ q.rules = None
  BY AtHandler
<1>2. q.call.uid \in IndexUids
  BY <1>1 DEF IsCall
<1>3. q.stable => (CreationAllowed(c) <=> MayCreate(q.call))
  BY <1>1, <1>2, FilterExact DEF CreationAllowed, MayCreate
<1>4. \A answer : LET r == Ended(q, answer)
                  IN  r.call = q.call /\ r.rules = None /\ r.stable = q.stable /\ r.reply = answer
  BY <1>1, EndedFields DEF SameFields
<1>5. ASSUME q.call.route = "create_index" PROVE InProgress(c, create_index(c))
  <2> DEFINE answer == [status |-> IF CreationAllowed(c) THEN "ok" ELSE "refused", value |-> None]
             r == Ended(q, answer)
  <2>1. r.call = q.call /\ r.rules = None /\ r.stable = q.stable /\ r.reply = answer
    <3> HIDE DEF answer
    <3> QED
      BY <1>4
  <2>2. answer.status = "ok" <=> CreationAllowed(c)
    OBVIOUS
  <2>3. AnswerTrue(r) /\ NarrowTrue(r)
    <3> HIDE DEF r, answer
    <3> QED
      BY <1>3, <1>5, <2>1, <2>2 DEF AnswerTrue, NarrowTrue
  <2>4. InProgress(c, r)
    <3> HIDE DEF answer
    <3> QED
      BY <2>3, AnswerStep
  <2> QED
    BY <2>4, AnsweredEnded DEF create_index, Reply
<1>6. ASSUME q.call.route = "add_documents" PROVE InProgress(c, add_documents(c))
  <2> DEFINE answer == [status |-> "ok", value |-> CreationAllowed(c)]
             r == Ended(q, answer)
  <2>1. r.call = q.call /\ r.rules = None /\ r.stable = q.stable /\ r.reply = answer
    <3> HIDE DEF answer
    <3> QED
      BY <1>4
  <2>2. answer.value <=> CreationAllowed(c)
    OBVIOUS
  <2>3. AnswerTrue(r) /\ NarrowTrue(r)
    <3> HIDE DEF r, answer
    <3> QED
      BY <1>3, <1>6, <2>1, <2>2 DEF AnswerTrue, NarrowTrue
  <2>4. InProgress(c, r)
    <3> HIDE DEF answer
    <3> QED
      BY <2>3, AnswerStep
  <2> QED
    BY <2>4, AnsweredEnded DEF add_documents
<1> QED
  BY <1>5, <1>6

\* A swap and a listing.
LEMMA IndexesAnswer ==
  ASSUME AuthInv, NEW c \in Clients, clients[c].pc = "handler",
         clients[c].call.route \in {"swap", "list"}
  PROVE  /\ clients[c].call.route = "swap" => InProgress(c, swap_indexes(c))
         /\ clients[c].call.route = "list" => InProgress(c, list_indexes(c))
<1> DEFINE q == clients[c]
<1>1. Shape(q) /\ Granted(q) /\ IsCall(q.call) /\ q.rules = None
  BY AtHandler
<1>2. q.stable => \A i \in IndexUids : is_index_authorized(q.filter, i) <=> Visible(q.call, i)
  BY <1>1, FilterExact
<1>3. \A answer : LET r == Ended(q, answer)
                  IN  r.call = q.call /\ r.rules = None /\ r.stable = q.stable /\ r.reply = answer
  BY <1>1, EndedFields DEF SameFields
<1>4. ASSUME q.call.route = "swap" PROVE InProgress(c, swap_indexes(c))
  <2> DEFINE answer == [status |-> IF AllAuthorized(c) THEN "ok" ELSE "refused", value |-> None]
             r == Ended(q, answer)
  <2>1. r.call = q.call /\ r.rules = None /\ r.stable = q.stable /\ r.reply = answer
    <3> HIDE DEF answer
    <3> QED
      BY <1>3
  <2>2. answer.status = "ok" <=> AllAuthorized(c)
    OBVIOUS
  <2>3. q.stable => (AllAuthorized(c) <=> \A i \in q.call.uids : Visible(q.call, i))
    BY <1>1, <1>2 DEF AllAuthorized, IsCall
  <2>4. AnswerTrue(r) /\ NarrowTrue(r)
    <3> HIDE DEF r, answer
    <3> QED
      BY <1>4, <2>1, <2>2, <2>3 DEF AnswerTrue, NarrowTrue
  <2>5. InProgress(c, r)
    <3> HIDE DEF answer
    <3> QED
      BY <2>4, AnswerStep
  <2> QED
    BY <2>5, AnsweredEnded DEF swap_indexes, Reply
<1>5. ASSUME q.call.route = "list" PROVE InProgress(c, list_indexes(c))
  <2> DEFINE shown == {i \in IndexUids : is_index_authorized(q.filter, i)}
             answer == [status |-> "ok", value |-> shown]
             r == Ended(q, answer)
  <2>1. r.call = q.call /\ r.rules = None /\ r.stable = q.stable /\ r.reply = answer
    <3> HIDE DEF answer
    <3> QED
      BY <1>3
  <2>2. answer.value = shown
    OBVIOUS
  <2>3. q.stable => shown = {i \in IndexUids : Visible(q.call, i)}
    BY <1>2
  <2>4. AnswerTrue(r) /\ NarrowTrue(r)
    <3> HIDE DEF r, answer, shown
    <3> QED
      BY <1>5, <2>1, <2>2, <2>3 DEF AnswerTrue, NarrowTrue
  <2>5. InProgress(c, r)
    <3> HIDE DEF answer
    <3> QED
      BY <2>4, AnswerStep
  <2> QED
    BY <2>5, AnsweredEnded DEF list_indexes
<1> QED
  BY <1>4, <1>5

\* A multi-search, whose searches carry the rule of the narrowest pattern.
LEMMA SearchAnswer ==
  ASSUME AuthInv, NEW c \in Clients, clients[c].pc = "handler",
         clients[c].call.route = "multi_search"
  PROVE  InProgress(c, multi_search_with_post(c))
<1> DEFINE q == clients[c]
           found == [i \in q.call.uids |-> get_index_search_rules(q.filter, i)]
           answer == IF AllAuthorized(c) THEN [status |-> "ok", value |-> found]
                     ELSE [status |-> "refused", value |-> None]
           r == Ended(q, answer)
<1>1. Shape(q) /\ Granted(q) /\ IsCall(q.call) /\ q.call.uids \subseteq IndexUids
  BY AtHandler DEF IsCall
<1>2. q.stable => (AllAuthorized(c) <=> \A i \in q.call.uids : Visible(q.call, i))
  BY <1>1, FilterExact DEF AllAuthorized
<1>3. r.call = q.call /\ r.rules = q.rules /\ r.stable = q.stable /\ r.reply = answer
  <2> HIDE DEF answer
  <2> QED
    BY <1>1, EndedFields DEF SameFields
<1>4. (answer.status = "ok" <=> AllAuthorized(c)) /\ (AllAuthorized(c) => answer.value = found)
  <2> HIDE DEF found
  <2> QED
    OBVIOUS
<1>5. AnswerTrue(r)
  <2> HIDE DEF r, answer
  <2> QED
    BY <1>2, <1>3, <1>4 DEF AnswerTrue
<1>6. NarrowTrue(r)
  <2> SUFFICES ASSUME q.rules # None, AllAuthorized(c), NEW i \in q.call.uids
               PROVE  \E p \in DOMAIN q.rules.rules :
                        /\ matches_str(p, i)
                        /\ found[i] = q.rules.rules[p]
                        /\ \A s \in DOMAIN q.rules.rules : matches_str(s, i) => Reach(p) \subseteq Reach(s)
    <3> HIDE DEF r, answer, found
    <3> QED
      BY <1>3, <1>4 DEF NarrowTrue
  <2>1. q.filter.search_rules = q.rules
    <3>1. PICK patterns : q.filter = AuthFilter(q.rules, SetRules(patterns), q.creation)
      BY <1>1 DEF Granted
    <3>2. \A x, y, z : AuthFilter(x, y, z).search_rules = x
      BY DEF AuthFilter
    <3> QED
      BY <3>1, <3>2
  <2>2. is_index_authorized(q.filter, i)
    BY DEF AllAuthorized
  <2>3. RulesAuthorize(q.rules, i)
    BY <2>1, <2>2 DEF is_index_authorized
  <2>4. found[i] = RulesFilter(q.rules, i)
    BY <2>1, <2>2 DEF get_index_search_rules
  <2>5. \A p \in DOMAIN q.rules.rules : IsPattern(p)
    BY <1>1, RulesOfSearch
  <2> DEFINE rules == q.rules
  <2> HIDE DEF rules
  <2>6. \E p \in DOMAIN rules.rules :
          /\ matches_str(p, i)
          /\ RulesFilter(rules, i) = rules.rules[p]
          /\ \A s \in DOMAIN rules.rules : matches_str(s, i) => Reach(p) \subseteq Reach(s)
    <3>1. RulesAuthorize(rules, i) /\ (\A p \in DOMAIN rules.rules : IsPattern(p)) /\ i \in IndexUids
      BY <1>1, <2>3, <2>5 DEF rules
    <3> QED
      BY <3>1, NarrowestChosen
  <2> QED
    BY <2>4, <2>6 DEF rules
<1>7. InProgress(c, r)
  <2> HIDE DEF answer
  <2> QED
    BY <1>5, <1>6, AnswerStep
<1> QED
  BY <1>7, AnsweredEnded DEF multi_search_with_post, Reply

\* The routes that only read.
LEMMA AnswerKeeps ==
  ASSUME AuthInv, NEW c \in Clients, Answer(c)
  PROVE  AuthInv'
<1> DEFINE route == clients[c].call.route
<1>1. clients[c].pc = "handler" /\ server.phase = "up"
      /\ UNCHANGED <<keys, inverted, disk, server, used, now>>
  BY DEF Answer, Reading
<1>2. route \in {"keys", "key"} => \A status, value : InProgress(c, Answered(c, status, value))
  BY <1>1, AtHandler, PlainAnswer, AnsweredEnded
<1>3. PICK r : clients' = [clients EXCEPT ![c] = r] /\ InProgress(c, r)
  <2>1. CASE route = "create_index" /\ Become(c, create_index(c))
    BY <1>1, <2>1, CreationAnswer DEF Become
  <2>2. CASE route = "add_documents" /\ Become(c, add_documents(c))
    BY <1>1, <2>2, CreationAnswer DEF Become
  <2>3. CASE route = "swap" /\ Become(c, swap_indexes(c))
    BY <1>1, <2>3, IndexesAnswer DEF Become
  <2>4. CASE route = "multi_search" /\ Become(c, multi_search_with_post(c))
    BY <1>1, <2>4, SearchAnswer DEF Become
  <2>5. CASE route = "list" /\ Become(c, list_indexes(c))
    BY <1>1, <2>5, IndexesAnswer DEF Become
  <2>6. CASE route = "keys" /\ Become(c, list_api_keys(c))
    BY <1>2, <2>6 DEF Become, list_api_keys
  <2>7. CASE route = "key" /\ Become(c, get_api_key(c))
    BY <1>2, <2>7 DEF Become, get_api_key, Reply
  <2> QED
    BY <2>1, <2>2, <2>3, <2>4, <2>5, <2>6, <2>7 DEF Answer
<1> QED
  BY <1>1, <1>3, ReadStep

\* The answer is sent.
LEMMA FinishKeeps ==
  ASSUME AuthInv, NEW c \in Clients, Finish(c)
  PROVE  AuthInv'
<1>1. server.phase = "up"
  BY NotIdle DEF Finish
<1> QED
  BY <1>1, ReadStep DEF Finish, Become

\* Time passes: every decision under way is unsettled.
LEMMA TickKeeps == AuthInv /\ Tick => AuthInv'
<1> SUFFICES ASSUME AuthInv, Tick PROVE AuthInv'
  OBVIOUS
<1>1. Stored'
  BY SameStored DEF AuthInv, Tick
<1>2. Started'
  <2>1. now + 1 \in 0 .. MaxTime
    BY AuthAssumption DEF AuthInv, Started, Tick
  <2> QED
    BY <2>1 DEF AuthInv, Started, Tick
<1>3. /\ clients' = [d \in Clients |-> clients'[d]] /\ UNCHANGED server
      /\ \A d \in Clients : clients'[d] = IF clients[d].pc = "idle" THEN clients[d]
                                          ELSE [clients[d] EXCEPT !.stable = FALSE]
  BY DEF Tick, Unsettled
<1>4. (\A d \in Clients : Requested(d, clients[d]))'
  <2> SUFFICES ASSUME NEW d \in Clients PROVE Requested(d, clients[d])'
    OBVIOUS
  <2>1. CASE clients[d].pc = "idle"
    <3>1. clients'[d] = clients[d]
      BY <1>3, <2>1
    <3>2. clients[d] = NoClient
      BY <2>1 DEF AuthInv, Requested, InProgress, Pcs
    <3> QED
      BY <3>1, <3>2 DEF Requested
  <2>2. CASE clients[d].pc # "idle"
    <3>1. PICK s : s = clients[d]
      OBVIOUS
    <3> DEFINE s2 == [s EXCEPT !.stable = FALSE]
    <3>2. clients'[d] = s2
      BY <1>3, <2>2, <3>1
    <3>3. InProgress(d, s) /\ server.phase = "up"
      BY <2>2, <3>1, NotIdle
    <3>4. InProgress(d, s2)'
      BY <1>3, <3>3, UnsettledRequest
    <3> HIDE DEF s2
    <3> QED
      BY <1>3, <3>2, <3>3, <3>4 DEF Requested
  <2> QED
    BY <2>1, <2>2
<1> QED
  BY <1>1, <1>2, <1>3, <1>4 DEF AuthInv

----------------------------------------------------------------------------
(* The theorems. *)

\* Every step keeps the invariant.
LEMMA NextKeeps == AuthInv /\ [Next]_vars => AuthInv'
<1> SUFFICES ASSUME AuthInv, [Next]_vars PROVE AuthInv'
  OBVIOUS
<1>1. CASE StartUp
  <2>1. ASSUME NEW mk \in MasterKeys, NEW o \in Options, Start(mk, o) PROVE AuthInv'
    BY <2>1, StartKeeps
  <2>2. CASE generate_default_keys
    BY <2>2, DefaultKeys, GenerateKeeps DEF generate_default_keys
  <2> QED
    BY <1>1, <2>1, <2>2, OpenAuthKeeps, OpenSchedulerKeeps, ImportKeysKeeps, InsertKeyKeeps,
       ImportRestKeeps, ImportFailsKeeps, OpenFailsKeeps DEF StartUp
<1>2. CASE Crash
  BY <1>2, CrashKeeps
<1>3. CASE Tick
  BY <1>3, TickKeeps
<1>4. ASSUME NEW c \in Clients, NEW call \in Calls[c], Receive(c, call) PROVE AuthInv'
  BY <1>4, ReceiveKeeps
<1>5. ASSUME NEW c \in Clients, Authenticate(c) PROVE AuthInv'
  BY <1>5, LookupKeeps, GetKeyKeeps, ReadAllKeeps, CheckCreationKeeps, DecideKeeps DEF Authenticate
<1>6. ASSUME NEW c \in Clients, Handle(c) PROVE AuthInv'
  BY <1>6, CreateKeeps, UpdateKeeps, PutKeeps, DeleteKeeps, AnswerKeeps, FinishKeeps DEF Handle
<1>7. CASE UNCHANGED vars
  <2>1. Stored'
    BY <1>7, SameStored DEF AuthInv, vars
  <2>2. Started'
    BY <1>7 DEF AuthInv, Started, vars
  <2>3. (\A d \in Clients : Requested(d, clients[d]))'
    <3> SUFFICES ASSUME NEW d \in Clients PROVE Requested(d, clients[d])'
      OBVIOUS
    <3>1. PICK s : s = clients[d]
      OBVIOUS
    <3>2. s = NoClient \/ (server.phase = "up" /\ InProgress(d, s))
      BY <3>1 DEF AuthInv, Requested
    <3>3. s = NoClient \/ (server'.phase = "up" /\ InProgress(d, s)')
      BY <1>7, <3>2, SameRequest DEF vars
    <3> QED
      BY <1>7, <3>1, <3>3 DEF Requested, vars
  <2> QED
    BY <1>7, <2>1, <2>2, <2>3 DEF AuthInv, vars
<1> QED
  BY <1>1, <1>2, <1>3, <1>4, <1>5, <1>6, <1>7 DEF Next

(* Whatever the interleaving of start-ups, crashes, key routes and requests, *)
(* the store, the start-up and every request are as the code left them.      *)
THEOREM AuthInvariant == Spec => []AuthInv
BY AuthInit, NextKeeps, PTL DEF Spec

(* StoreSound: the inverted database, from which alone the rights of a key   *)
(* are read, says what the keys say after every transaction.                 *)
THEOREM StoreAlwaysSound == Spec => []StoreSound
<1>1. AuthInv => StoreSound
  <2> SUFFICES ASSUME AuthInv PROVE StoreSound
    OBVIOUS
  <2>1. InvertedExact
    BY DEF AuthInv, Stored, InvertedExact
  <2>2. \A c \in Clients : clients[c].pc \in Pcs /\ (server.phase # "up" => clients[c].pc = "idle")
    BY DEF AuthInv, Requested, InProgress, Pcs, NoClient
  <2>3. DOMAIN keys = Uids
    BY DEF AuthInv, Stored
  <2> QED
    BY <2>1, <2>2, <2>3 DEF AuthInv, Stored, Started, StoreSound, TypeOK
<1> QED
  BY <1>1, AuthInvariant, PTL

(* ImportSound: an imported dump replaces the keys of the new database, and  *)
(* a server told to import it never runs on half of it.                      *)
THEOREM ImportAlwaysSound == Spec => []ImportSound
<1>1. AuthInv => ImportSound
  BY DEF AuthInv, Started, ImportSound, ImportExact, ImportAllOrNothing
<1> QED
  BY <1>1, AuthInvariant, PTL

(* RequestsDecided: a request that no write and no tick overtook is let      *)
(* through exactly when its token is entitled to it, and is answered what    *)
(* the token gives access to.                                                *)
THEOREM RequestsAlwaysDecided == Spec => []RequestsDecided
<1>1. AuthInv => RequestsDecided
  <2> SUFFICES ASSUME AuthInv PROVE RequestsDecided
    OBVIOUS
  <2>1. \A c \in Clients : clients[c].pc = "idle" \/ Decided(clients[c])
    BY DEF AuthInv, Requested, InProgress, NoClient
  <2>2. DecisionExact
    BY <2>1 DEF DecisionExact, Decided
  <2>3. AnswerExact
    BY <2>1 DEF AnswerExact, AnswerTrue, Decided
  <2> QED
    BY <2>2, <2>3 DEF RequestsDecided
<1> QED
  BY <1>1, AuthInvariant, PTL

(* NarrowestRule: a search with a tenant token carries the rule of the       *)
(* narrowest pattern that matches its index.                                 *)
THEOREM RulesAlwaysNarrowest == Spec => []NarrowestRule
<1>1. AuthInv => NarrowestRule
  <2> SUFFICES ASSUME AuthInv PROVE NarrowestRule
    OBVIOUS
  <2>1. \A c \in Clients : clients[c].pc = "idle" \/ Decided(clients[c])
    BY DEF AuthInv, Requested, InProgress, NoClient
  <2> QED
    BY <2>1 DEF NarrowestRule, NarrowTrue, Decided
<1> QED
  BY <1>1, AuthInvariant, PTL
=============================================================================
