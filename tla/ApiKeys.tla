------------------------------ MODULE ApiKeys ------------------------------
(* What an API key may do: its actions and index patterns, the entries of  *)
(* the inverted database it is expanded into, and the search rules of a    *)
(* tenant token.  Source: meilisearch-auth and meilisearch-types::keys.    *)
EXTENDS Integers, FiniteSets, FiniteSetsExt, SequencesExt

CONSTANTS
  None,        \* the absent option
  IndexUids    \* index names, as sequences of letters

ASSUME IndexUidsAssumption ==
  /\ None \notin IndexUids
  /\ \A i \in IndexUids : i \in Seq({i[k] : k \in DOMAIN i})

----------------------------------------------------------------------------
(* Actions.  An action of keys.rs is named "group.operation"; All is "*".  *)

Op(group, op) == [group |-> group, op |-> op]
Ops(group, ops) == {Op(group, op) : op \in ops}

All == Op("all", "*")

DocumentsOps == Ops("documents", {"add", "get", "delete"})
IndexesOps == Ops("indexes", {"create", "get", "update", "delete", "swap"})
SettingsOps == Ops("settings", {"get", "update"})
DumpsOps == Ops("dumps", {"create"})
TasksOps == Ops("tasks", {"get", "delete", "cancel"})
StatsOps == Ops("stats", {"get"})
MetricsOps == Ops("metrics", {"get"})
KeysOps == Ops("keys", {"create", "get", "update", "delete"})

StarGroups == {"documents", "indexes", "settings", "dumps", "tasks", "stats", "metrics"}

Action ==
  {All, Op("search", "search"), Op("version", "version")}
  \cup DocumentsOps \cup IndexesOps \cup SettingsOps \cup DumpsOps \cup TasksOps
  \cup StatsOps \cup MetricsOps \cup KeysOps
  \cup Ops("experimental", {"get", "update"})
  \cup {Op(g, "*") : g \in StarGroups}

Search == Op("search", "search")
IndexesAdd == Op("indexes", "create")

\* Mutant: an operation is missing from its group.
MissingSwap(action) ==
  IF action = Op("indexes", "*") THEN IndexesOps \ {Op("indexes", "swap")}
  ELSE IF action = All THEN Action ELSE {action}

(* The table put_api_key writes out. *)
GroupOps ==
  [documents |-> DocumentsOps, indexes |-> IndexesOps, settings |-> SettingsOps,
   dumps |-> DumpsOps, tasks |-> TasksOps, stats |-> StatsOps, metrics |-> MetricsOps]

ActionsOf(action) ==
  IF action = All THEN Action
  ELSE IF action.op = "*" THEN GroupOps[action.group] ELSE {action}

is_keys_action(action) == action \in KeysOps

----------------------------------------------------------------------------
(* Index patterns: a name, or a prefix followed by a star. *)

Pattern(text, star) == [text |-> text, star |-> star]
AllIndexes == Pattern(<<>>, TRUE)

matches_all(p) == p = AllIndexes
is_exact(p) == ~p.star
PatternLen(p) == Len(p.text) + (IF p.star THEN 1 ELSE 0)

matches_str(p, index) ==
  IF p.star THEN IsPrefix(p.text, index) ELSE p.text = index

----------------------------------------------------------------------------
(* The inverted database: one entry [uid, action, index, exp] for each     *)
(* action the key was given and each of its patterns, or one without an    *)
(* index when a pattern matches every index.                               *)

Entry(uid, action, index, exp) ==
  [uid |-> uid, action |-> action, index |-> index, exp |-> exp]

EntriesOf(uid, key) ==
  LET actions == UNION {ActionsOf(a) : a \in key.actions}
      no_index_restriction == \E p \in key.indexes : matches_all(p)
      indexes == IF no_index_restriction THEN {None} ELSE key.indexes
  IN  {Entry(uid, a, i, key.expires_at) : a \in actions, i \in indexes}

(* The order of the entries in LMDB: an entry without an index comes first, *)
(* and of two patterns the one whose bytes are smaller; every entry of a    *)
(* uid carries the same date, so the first one found stands for the others. *)
(* A lookup gives the date of that entry, or nothing.                       *)
Found(entries) ==
  IF entries = {} THEN {} ELSE {(CHOOSE e \in entries : TRUE).exp}

EntriesFor(inverted, uid, action) ==
  {e \in inverted : e.uid = uid /\ e.action = action}

get_expiration_date(inverted, uid, action, index) ==
  LET entries == EntriesFor(inverted, uid, action)
  IN  IF index = None
      THEN Found({e \in entries : e.index = None})
      ELSE Found({e \in entries : e.index # None /\ matches_str(e.index, index)})

prefix_first_expiration_date(inverted, uid, action) ==
  Found(EntriesFor(inverted, uid, action))

\* The second lookup of is_key_authorized.
IndexedExpiration(inverted, uid, action, index) ==
  IF index # None THEN get_expiration_date(inverted, uid, action, index)
  ELSE prefix_first_expiration_date(inverted, uid, action)

\* Its conclusion: the first lookup that found an entry decides.
NotExpired(all, indexed, now) ==
  LET found == IF all # {} THEN all ELSE indexed
  IN  found # {} /\ \A exp \in found : exp # None => now < exp

----------------------------------------------------------------------------
(* Search rules: a set of patterns, or a map from patterns to a filter that *)
(* the search must carry (None when there is none).                        *)

SetRules(patterns) == [type |-> "Set", rules |-> [p \in patterns |-> None]]
MapRules(rules) == [type |-> "Map", rules |-> rules]
DefaultRules == SetRules({AllIndexes})

RulesAuthorize(rules, index) ==
  \E p \in DOMAIN rules.rules : matches_str(p, index)

\* Mutant: the longest pattern wins whether or not it is exact.
LongestRule(rules, index) ==
  LET matching == {p \in DOMAIN rules.rules : matches_str(p, index)}
  IN  IF matching = {} THEN None
      ELSE rules.rules[CHOOSE p \in matching :
                         \A q \in matching : PatternLen(p) >= PatternLen(q)]

(* The filter of the most specific pattern; a set of patterns adds none. *)
RulesFilter(rules, index) ==
  LET matching == {p \in DOMAIN rules.rules : matches_str(p, index)}
      rank(p) == (IF is_exact(p) THEN 1000 ELSE 0) + PatternLen(p)
  IN  IF matching = {} THEN None
      ELSE rules.rules[CHOOSE p \in matching :
                         \A q \in matching : rank(p) >= rank(q)]

(* The filter of a granted request: the rules of the tenant token, the      *)
(* patterns of the key and whether the key may create indexes.              *)
AuthFilter(search_rules, key_authorized_indexes, allow_index_creation) ==
  [search_rules |-> search_rules,
   key_authorized_indexes |-> key_authorized_indexes,
   allow_index_creation |-> allow_index_creation]

DefaultFilter == AuthFilter(None, DefaultRules, TRUE)

\* Mutant: the rules of the tenant token are forgotten.
KeyAuthorizes(filter, index) == RulesAuthorize(filter.key_authorized_indexes, index)

is_index_authorized(filter, index) ==
  /\ RulesAuthorize(filter.key_authorized_indexes, index)
  /\ filter.search_rules # None => RulesAuthorize(filter.search_rules, index)

allow_index_creation(filter, index) ==
  filter.allow_index_creation /\ is_index_authorized(filter, index)

get_index_search_rules(filter, index) ==
  IF ~is_index_authorized(filter, index) THEN None
  ELSE RulesFilter(IF filter.search_rules # None THEN filter.search_rules
                   ELSE filter.key_authorized_indexes, index)
============================================================================
