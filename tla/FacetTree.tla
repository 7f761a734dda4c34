---- MODULE FacetTree ----
(***************************************************************************)
(* The facet database of one field (milli/src/update/facet).  Level 0 maps *)
(* every facet value to the documents holding it; an entry of level l > 0  *)
(* stands for size consecutive entries of level l - 1, the first of which  *)
(* has the entry's own left bound, and holds the union of their documents. *)
(*                                                                         *)
(* A database is a function db from levels to functions from left bounds   *)
(* to [size, docids].  Facet values are numbers: only their order matters, *)
(* as in the codecs, whose bytes order the keys.                           *)
(***************************************************************************)
EXTENDS Integers, Sequences, FiniteSets, FiniteSetsExt, Functions, TLC

CONSTANTS GroupSize,      \* FACET_GROUP_SIZE
          MaxGroupSize,   \* FACET_MAX_GROUP_SIZE
          MinLevelSize,   \* FACET_MIN_LEVEL_SIZE
          MaxLevel        \* the levels the model has room for

ASSUME FacetSizes == /\ GroupSize \in Nat \ {0, 1}
                     /\ MaxGroupSize \in Nat /\ MaxGroupSize > GroupSize
                     /\ MinLevelSize \in Nat \ {0, 1}
                     /\ MaxLevel \in Nat \ {0}

Levels == 0..MaxLevel

EmptyFacets == [l \in Levels |-> << >>]

(* The keys of a level from bound k on, in order, at most n of them:       *)
(* db.range(key..).take(n).                                                *)
Sorted(S) == [i \in 1..Cardinality(S) |->
                CHOOSE k \in S : Cardinality({j \in S : j < k}) = i - 1]
RangeFrom(level, k, n) ==
    LET s == Sorted({j \in DOMAIN level : j >= k})
    IN  SubSeq(s, 1, IF n < Len(s) THEN n ELSE Len(s))
AllKeys(level) == Sorted(DOMAIN level)

(* The union of the docids of a sequence of keys of a level.               *)
DocidsOf(level, keys) == UNION {level[keys[i]].docids : i \in DOMAIN keys}

Group(size, docids) == [size |-> size, docids |-> docids]
Put(level, k, group) == (k :> group) @@ level
Drop(level, ks) == Restrict(level, DOMAIN level \ ks)

get_first_facet_value(db) == Min(DOMAIN db[0])
get_last_facet_value(db) == Max(DOMAIN db[0])
get_highest_level(db) == Max({0} \cup {l \in Levels : DOMAIN db[l] # {}})

(* The number of entries of the database, over all its levels.             *)
database_len(db) == SumFunction([l \in Levels |-> Cardinality(DOMAIN db[l])])

---------------------------------------------------------------------------
(* The incremental update, incremental.rs.                                 *)

(* The group a value belongs to: the last one that starts at or before it, *)
(* or the first one of the level.                                          *)
find_insertion_key_value(level, v) ==
    LET before == {k \in DOMAIN level : k <= v}
    IN  IF before # {} THEN Max(before) ELSE Min(DOMAIN level)

insert_in_level_0(db, v, docids) ==
    IF v \in DOMAIN db[0]
    THEN [db  |-> [db EXCEPT ![0][v].docids = @ \cup docids],
          res |-> "InPlace"]
    ELSE [db  |-> [db EXCEPT ![0] = Put(@, v, Group(1, docids))],
          res |-> "Insert"]

(* A group that reached MaxGroupSize is split in two; the documents of     *)
(* both halves are read again from the level below.                        *)
SplitGroup(db, l, k, size) ==
    LET children == RangeFrom(db[l - 1], k, size)
        left     == SubSeq(children, 1, size \div 2)
        right    == SubSeq(children, size \div 2 + 1, Len(children))
    IN  [db EXCEPT ![l] =
            Put(Put(Drop(@, {k}),
                    k, Group(size \div 2, DocidsOf(db[l - 1], left))),
                right[1],
                Group(size - size \div 2, DocidsOf(db[l - 1], right)))]

(* A bug: a group may grow to MaxGroupSize before it is split.             *)
InsertAboveSplitsLate(below, l, v, docids) ==
    LET db   == below.db
        k    == find_insertion_key_value(db[l], v)
        new  == IF v < k THEN v ELSE k
        size == db[l][k].size + (IF below.res = "Insert" THEN 1 ELSE 0)
        put(g) == [db EXCEPT ![l] = Put(Drop(@, {k}), new, g)]
    IN  IF below.res = "InPlace" \/ size <= MaxGroupSize
        THEN [db |-> put(Group(size, db[l][k].docids \cup docids)), res |-> "InPlace"]
        ELSE [db |-> SplitGroup(put(db[l][k]), l, new, size), res |-> "Insert"]

(* What the insertion below level l does to level l itself.                *)
InsertAbove(below, l, v, docids) ==
    LET db   == below.db
        k    == find_insertion_key_value(db[l], v)
        new  == IF v < k THEN v ELSE k
        size == db[l][k].size + (IF below.res = "Insert" THEN 1 ELSE 0)
        put(g) == [db EXCEPT ![l] = Put(Drop(@, {k}), new, g)]
    IN  CASE below.res = "InPlace" ->
               [db |-> [db EXCEPT ![l][k].docids = @ \cup docids],
                res |-> "InPlace"]
          [] below.res # "InPlace" /\ size < MaxGroupSize ->
               [db |-> put(Group(size, db[l][k].docids \cup docids)),
                res |-> IF new # k THEN "Expand" ELSE "InPlace"]
          [] OTHER ->
               [db |-> SplitGroup(put(db[l][k]), l, new, size),
                res |-> "Insert"]

insert_in_level(db, level, v, docids) ==
    LET ins[l \in 0..level] ==
            IF l = 0 THEN insert_in_level_0(db, v, docids)
            ELSE InsertAbove(ins[l - 1], l, v, docids)
    IN  ins[level]

(* The keys of a level cut into groups of GroupSize, the last one holding  *)
(* the leftover.                                                           *)
Chunks(keys) ==
    [i \in 1..((Len(keys) + GroupSize - 1) \div GroupSize) |->
        SubSeq(keys, (i - 1) * GroupSize + 1,
               IF i * GroupSize < Len(keys) THEN i * GroupSize ELSE Len(keys))]

(* The level above the given one, one entry per chunk of its keys.         *)
LevelAbove(level) ==
    LET chunks == Chunks(AllKeys(level))
        of(k)  == CHOOSE c \in Range(chunks) : c[1] = k
    IN  [k \in {c[1] : c \in Range(chunks)} |->
            Group(Len(of(k)), DocidsOf(level, of(k)))]

insert(db, v, docids) ==
    LET high == get_highest_level(db)
        ins  == insert_in_level(db, high, v, docids)
    IN  IF docids = {} THEN db
        ELSE IF \/ ins.res # "Insert"
                \/ Cardinality(DOMAIN ins.db[high]) < GroupSize * MinLevelSize
        THEN ins.db
        ELSE [ins.db EXCEPT ![high + 1] = LevelAbove(ins.db[high])]

delete_in_level_0(db, v, docids) ==
    LET left == db[0][v].docids \ docids
        next == {k \in DOMAIN db[0] : k > v}
    IN  IF left = {}
        THEN [db |-> [db EXCEPT ![0] = Drop(@, {v})], res |-> "Remove",
              next |-> next]
        ELSE [db |-> [db EXCEPT ![0][v] = Group(1, left)], res |-> "InPlace",
              next |-> {}]

(* A bug: a group keeps its left bound when the value there is deleted.    *)
DeleteAboveKeepsBound(below, l, v, docids) ==
    LET db   == below.db
        k    == find_insertion_key_value(db[l], v)
        size == db[l][k].size - (IF below.res = "Remove" THEN 1 ELSE 0)
        left == db[l][k].docids \ docids
    IN  IF size = 0 THEN [below EXCEPT !.db[l] = Drop(@, {k}), !.res = "Remove"]
        ELSE [below EXCEPT !.db[l][k] = Group(size, left), !.res = "InPlace"]

(* What the deletion below level l does to level l itself.  The group was  *)
(* looked up before the deletion, which leaves level l alone.              *)
DeleteAbove(below, l, v, docids) ==
    LET db   == below.db
        k    == find_insertion_key_value(db[l], v)
        size == db[l][k].size - (IF below.res = "Remove" THEN 1 ELSE 0)
        new  == IF v = k THEN Min(below.next) ELSE k
        left == db[l][k].docids \ docids
    IN  CASE below.res = "InPlace" ->
               [below EXCEPT !.db[l][k].docids = left]
          [] below.res # "InPlace" /\ size = 0 ->
               [below EXCEPT !.db[l] = Drop(@, {k}), !.res = "Remove"]
          [] OTHER ->
               [below EXCEPT
                  !.db[l] = Put(Drop(@, {k}), new, Group(size, left)),
                  !.res   = IF v = k THEN "Reduce" ELSE "InPlace"]

delete_in_level(db, level, v, docids) ==
    LET del[l \in 0..level] ==
            IF l = 0 THEN delete_in_level_0(db, v, docids)
            ELSE DeleteAbove(del[l - 1], l, v, docids)
    IN  del[level]

delete(db, v, docids) ==
    LET high == get_highest_level(db)
        del  == delete_in_level(db, high, v, docids)
    IN  IF v \notin DOMAIN db[0] THEN db
        ELSE IF /\ del.res = "Remove"
                /\ high > 0
                /\ Cardinality(DOMAIN del.db[high]) < MinLevelSize
        THEN [del.db EXCEPT ![high] = << >>]
        ELSE del.db

---------------------------------------------------------------------------
(* The bulk update, bulk.rs.                                               *)

(* Levels 1 and up computed from level 0 alone.  A level is kept when its  *)
(* full groups, or those and the leftover, reach MinLevelSize; whatever    *)
(* its length, its entries are handed to the level above.                  *)
compute_higher_levels(db0) ==
    LET entries[l \in Levels] ==
            IF l = 0 THEN db0 ELSE LevelAbove(entries[l - 1])
        written(n) == LET full == (n \div GroupSize) * GroupSize
                      IN  IF n # full /\ full >= MinLevelSize - 1
                          THEN n ELSE full
    IN  [l \in Levels |->
            IF l = 0 \/ written(Cardinality(DOMAIN entries[l])) >= MinLevelSize
            THEN entries[l] ELSE << >>]

update_level0(level, new_data) ==
    [v \in DOMAIN level \cup DOMAIN new_data |->
        Group(1, (IF v \in DOMAIN level THEN level[v].docids ELSE {})
                 \cup (IF v \in DOMAIN new_data THEN new_data[v] ELSE {}))]

(* Replaces every level above 0 (clear_levels) and gives the union of the  *)
(* documents for faceted_documents_ids.                                    *)
update(db0) ==
    [db |-> compute_higher_levels(db0), docids |-> DocidsOf(db0, AllKeys(db0))]
====
